---- MODULE Spec2Model ----
(***************************************************************************)
(* SchemaEditor: the SQL editor sidebar (SqlEditor) that keeps the schema  *)
(* graph of the store and the DDL text in step, with its repair passes,    *)
(* the layout-preserving merge of a parsed graph, and the apply / cancel / *)
(* live-edit controller built from React state and effects.                *)
(*                                                                         *)
(* A text is a sequence of tokens.  A token is a maximal run of word       *)
(* characters (\w+), one whitespace character, one quote character, one    *)
(* punctuation character, or the comment marker --.  Concatenating the     *)
(* tokens gives the string the program sees.                               *)
(***************************************************************************)
EXTENDS Integers, Sequences, FiniteSets, TLC

VARIABLES
    nodes,          \* schema.nodes of the store (tables of the graph)
    nodesMissing,   \* TRUE when schema.nodes is undefined in the stored schema
    edges,          \* schema.edges
    enumTypes,      \* schema.enumTypes
    settings,       \* schema.settings
    code,           \* schema.code, written by updateCode
    appliedSql,     \* useState appliedSql
    dbType,         \* useState dbType
    sqlContent,     \* useState sqlContent (shown when not editing)
    editableSql,    \* useState editableSql (the edit buffer)
    isEditing,      \* useState isEditing
    error,          \* useState error (Null when no error)
    liveEditMode,   \* useState liveEditMode
    toasts,         \* pending "Apply Now" toast actions, each with the render it closed over
    notified,       \* TRUE when the last event showed a toast about pending edits
    last,           \* what the last handler did (observation of the last step)
    steps,          \* the number of user events so far
    snapshot,       \* the rollback text (appliedSql) at the moment Edit was clicked
    screen,         \* the useState values of the render on screen, those the handlers read
    settingsMissing, \* TRUE while schema.settings is undefined in the store
    pending,        \* the effects of the render on screen that have not run yet
    clock,          \* the last value that Date.now() gave
    edits,          \* the edits of the canvas and the sidebar so far
    recOld,         \* the merge on its own: the nodes of the store
    recNew,         \* the merge on its own: the parsed nodes
    recOut,         \* the merge on its own: the merged nodes
    recDone,        \* the merge on its own: the merge has run
    repLines,       \* the repair passes on their own: the lines of the input text
    repOp,          \* the repair passes on their own: the pass that ran ("none" before)
    repOut,         \* the repair passes on their own: the output text
    sbSchema,       \* the sidebar on its own: the columns of the selected table
    sbOp,           \* the sidebar on its own: the last operation
    sbClock,        \* the sidebar on its own: the last value that Date.now() gave
    showTemplateInfo, \* the browse page: useState showTemplateInfo (Null or a template id)
    tplTemplate,    \* the browse page: the argument of the last Use Template call
    tplDepth,       \* the browse page: frames of handleCreateFromTemplate on the call stack
    tplOutcome,     \* the browse page: "none", "running", "returned" or "threw"
    tplRequested    \* the browse page: the templates a schema was requested from

ctlVars == <<nodes, nodesMissing, edges, enumTypes, settings, code, appliedSql, dbType,
             sqlContent, editableSql, isEditing, error, liveEditMode, toasts, notified,
             last, steps, snapshot, screen, settingsMissing, pending, clock, edits>>

recVars == <<recOld, recNew, recOut, recDone>>

repVars == <<repLines, repOp, repOut>>

sbVars == <<sbSchema, sbOp, sbClock>>

tplVars == <<showTemplateInfo, tplTemplate, tplDepth, tplOutcome, tplRequested>>

vars == <<ctlVars, recVars, repVars, sbVars, tplVars>>

-----------------------------------------------------------------------------
(* Tokens *)

WS == {" ", "\n"}

\* the backtick character (written out: the character itself cannot appear in
\* a string of this language)
Backtick == "<backtick>"

Quotes == {"\"", "'", Backtick}

Punct == {"(", ")", ";", ",", "--"}

\* \w+ : a token that is neither whitespace, a quote nor punctuation
IsWord(t) == t \notin (WS \cup Quotes \cup Punct \cup {"<eof>"})

\* the i flag of the regular expressions, over the words the inputs use
ToUpperCase(t) ==
    CASE t = "create" -> "CREATE"
      [] t = "table" -> "TABLE"
      [] t = "alter" -> "ALTER"
      [] t = "references" -> "REFERENCES"
      [] t = "add" -> "ADD"
      [] t = "constraint" -> "CONSTRAINT"
      [] OTHER -> t

\* String.prototype.toLowerCase over the labels the inputs use
ToLowerCase(t) ==
    CASE t = "Users" -> "users"
      [] t = "USERS" -> "users"
      [] t = "Orders" -> "orders"
      [] t = "My Table" -> "my table"
      [] OTHER -> t

Tok(s, i) == IF i >= 1 /\ i <= Len(s) THEN s[i] ELSE "<eof>"

Slice(s, a, b) == IF a > b THEN <<>> ELSE SubSeq(s, a, b)

\* a search from the left (a regex scan, Array.prototype.find) stops at the
\* first position that satisfies the test: the least position of a set of
\* positions, 0 when the set is empty
First(positions) ==
    IF positions = {} THEN 0 ELSE CHOOSE i \in positions : \A j \in positions : i <= j

\* \s* from position i: the first position at or after i that holds no whitespace
RECURSIVE SkipWs(_, _)
SkipWs(s, i) == IF i <= Len(s) /\ s[i] \in WS THEN SkipWs(s, i + 1) ELSE i

\* kw1\s+kw2\s+...kwn\s+ at position i (case-insensitive): the position after
\* it, or 0 when it does not match
RECURSIVE MatchKw(_, _, _)
MatchKw(s, i, kws) ==
    IF kws = <<>> THEN i
    ELSE IF ToUpperCase(Tok(s, i)) = Head(kws) /\ SkipWs(s, i + 1) > i + 1
         THEN MatchKw(s, SkipWs(s, i + 1), Tail(kws))
         ELSE 0

\* (\w+\s+\w+) at position j: the position of the second word, or 0
TwoWords(s, j) ==
    IF j >= 1 /\ IsWord(Tok(s, j)) /\ SkipWs(s, j + 1) > j + 1
       /\ IsWord(Tok(s, SkipWs(s, j + 1)))
    THEN SkipWs(s, j + 1)
    ELSE 0

NoMatch == [ok |-> FALSE, from |-> 0, to |-> 0, next |-> 0]

\* the name group, the negative lookahead for a quote, then \s*\(
NameThenParen(s, j) ==
    LET k == TwoWords(s, j) IN
    IF k # 0 /\ Tok(s, SkipWs(s, k + 1)) = "("
    THEN [ok |-> TRUE, from |-> j, to |-> k, next |-> SkipWs(s, k + 1) + 1]
    ELSE NoMatch

\* the name group, the negative lookahead (no quote after optional
\* whitespace), then \s+
NameThenSpace(s, j) ==
    LET k == TwoWords(s, j) IN
    IF k # 0 /\ SkipWs(s, k + 1) > k + 1 /\ Tok(s, SkipWs(s, k + 1)) \notin Quotes
    THEN [ok |-> TRUE, from |-> j, to |-> k, next |-> SkipWs(s, k + 1)]
    ELSE NoMatch

\* createTableRegex at position i; the optional IF NOT EXISTS group is tried
\* first and given up when the rest does not match with it
createTableRegex(s, i) ==
    LET a == MatchKw(s, i, <<"CREATE", "TABLE">>)
        b == IF a = 0 THEN 0 ELSE MatchKw(s, a, <<"IF", "NOT", "EXISTS">>)
    IN  IF a = 0 THEN NoMatch
        ELSE IF b # 0 /\ NameThenParen(s, b).ok THEN NameThenParen(s, b)
        ELSE NameThenParen(s, a)

alterTableRegex(s, i) ==
    LET a == MatchKw(s, i, <<"ALTER", "TABLE">>)
    IN  IF a = 0 THEN NoMatch ELSE NameThenSpace(s, a)

referencesRegex(s, i) ==
    LET a == MatchKw(s, i, <<"REFERENCES">>)
    IN  IF a = 0 THEN NoMatch ELSE NameThenParen(s, a)

RegexAt(kind, s, i) ==
    CASE kind = "create" -> createTableRegex(s, i)
      [] kind = "alter" -> alterTableRegex(s, i)
      [] kind = "references" -> referencesRegex(s, i)

\* the replacement strings: the keywords, the name group $1 in double quotes,
\* and a space followed (for CREATE TABLE and REFERENCES) by an open paren
Replacement(kind, s, m) ==
    LET name == <<"\"">> \o Slice(s, m.from, m.to) \o <<"\"">> IN
    CASE kind = "create" -> <<"CREATE", " ", "TABLE", " ">> \o name \o <<" ", "(">>
      [] kind = "alter" -> <<"ALTER", " ", "TABLE", " ">> \o name \o <<" ">>
      [] kind = "references" -> <<"REFERENCES", " ">> \o name \o <<" ", "(">>

\* the position of the leftmost match at or after position i, or 0
NextMatch(kind, s, i) == First({k \in i..Len(s) : RegexAt(kind, s, k).ok})

\* String.prototype.replace with a g-flag regex: leftmost matches, left to right
RECURSIVE ReplaceAll(_, _, _, _)
ReplaceFrom(kind, s, i, acc, j) ==
    IF j = 0 THEN acc \o Slice(s, i, Len(s))
    ELSE ReplaceAll(kind, s, RegexAt(kind, s, j).next,
                    acc \o Slice(s, i, j - 1) \o Replacement(kind, s, RegexAt(kind, s, j)))

ReplaceAll(kind, s, i, acc) == ReplaceFrom(kind, s, i, acc, NextMatch(kind, s, i))

ensureTableNamesAreQuoted(sql) ==
    LET r1 == ReplaceAll("create", sql, 1, <<>>)
        r2 == ReplaceAll("alter", r1, 1, <<>>)
    IN  ReplaceAll("references", r2, 1, <<>>)

-----------------------------------------------------------------------------
(* removeDuplicateAlterTableStatements *)

\* a match of the header regex "-- " followed by one or more characters other
\* than a newline starts at position i
HeaderAt(s, i) ==
    Tok(s, i) = "--" /\ Tok(s, i + 1) = " " /\ i + 2 <= Len(s) /\ s[i + 2] # "\n"

\* the last position of the line that holds position i
LineEnd(s, i) ==
    IF i > Len(s) THEN i
    ELSE First({k \in i..Len(s) : k = Len(s) \/ s[k + 1] = "\n"})

\* sql.split(/(-- [^\n]+)/): the texts between the headers and the headers
\* themselves, in order
RECURSIVE SplitSections(_, _, _, _)
SectionsFrom(s, i, cur, acc, j) ==
    IF j = 0 THEN Append(acc, cur \o Slice(s, i, Len(s)))
    ELSE SplitSections(s, LineEnd(s, j) + 1, <<>>,
                       acc \o <<cur \o Slice(s, i, j - 1), Slice(s, j, LineEnd(s, j))>>)

SplitSections(s, i, cur, acc) ==
    SectionsFrom(s, i, cur, acc, First({k \in i..Len(s) : HeaderAt(s, k)}))

FkHeaderWords == <<"Foreign", " ", "Key", " ", "Constraints">>

\* section.includes("Foreign Key Constraints")
IncludesFkHeader(section) ==
    \E i \in 1..Len(section) :
        /\ i + Len(FkHeaderWords) - 1 <= Len(section)
        /\ SubSeq(section, i, i + Len(FkHeaderWords) - 1) = FkHeaderWords

\* section.split('\n')
RECURSIVE SplitLines(_, _, _, _)
LinesFrom(s, i, cur, acc, j) ==
    IF j = 0 THEN Append(acc, cur \o Slice(s, i, Len(s)))
    ELSE SplitLines(s, j + 1, <<>>, Append(acc, cur \o Slice(s, i, j - 1)))

SplitLines(s, i, cur, acc) ==
    LinesFrom(s, i, cur, acc, First({k \in i..Len(s) : s[k] = "\n"}))

\* lines.join('\n')
RECURSIVE JoinLines(_)
JoinLines(ls) ==
    IF ls = <<>> THEN <<>>
    ELSE IF Len(ls) = 1 THEN ls[1]
    ELSE ls[1] \o <<"\n">> \o JoinLines(Tail(ls))

RECURSIVE TrimStart(_)
TrimStart(s) == IF s # <<>> /\ Head(s) \in WS THEN TrimStart(Tail(s)) ELSE s

RECURSIVE TrimEnd(_)
TrimEnd(s) ==
    IF s # <<>> /\ s[Len(s)] \in WS THEN TrimEnd(SubSeq(s, 1, Len(s) - 1)) ELSE s

\* String.prototype.trim
Trim(s) == TrimEnd(TrimStart(s))

\* the constraint-name regex ADD\s+CONSTRAINT\s+ an optional quote and one or
\* more characters that are neither quotes nor whitespace, anywhere in the line
ConstraintMatch(line) ==
    \E i \in 1..Len(line) :
        LET a == MatchKw(line, i, <<"ADD", "CONSTRAINT">>)
            free == WS \cup Quotes \cup {"<eof>"}
        IN  /\ a # 0
            /\ IF Tok(line, a) \in Quotes THEN Tok(line, a + 1) \notin free
               ELSE Tok(line, a) \notin free

\* line.trim().startsWith('ALTER TABLE')
StartsWithAlterTable(line) ==
    LET t == Trim(line) IN Len(t) >= 3 /\ SubSeq(t, 1, 3) = <<"ALTER", " ", "TABLE">>

\* the loop over the lines of one section; uniqueConstraints is the set of the
\* trimmed statements seen so far
RECURSIVE DedupLines(_, _, _)
DedupLines(ls, uniqueConstraints, uniqueLines) ==
    IF ls = <<>> THEN [lines |-> uniqueLines, seen |-> uniqueConstraints]
    ELSE LET line == Head(ls) IN
         IF ConstraintMatch(line) /\ StartsWithAlterTable(line)
         THEN IF Trim(line) \notin uniqueConstraints
              THEN DedupLines(Tail(ls), uniqueConstraints \cup {Trim(line)},
                              Append(uniqueLines, line))
              ELSE DedupLines(Tail(ls), uniqueConstraints, uniqueLines)
         ELSE DedupLines(Tail(ls), uniqueConstraints, Append(uniqueLines, line))

\* sections.map(...) and join(''): only the sections that include the header
\* words are processed, the set of seen statements is shared by all of them
RECURSIVE ProcessSections(_, _, _)
ProcessSections(sections, uniqueConstraints, acc) ==
    IF sections = <<>> THEN acc
    ELSE LET section == Head(sections) IN
         IF ~IncludesFkHeader(section)
         THEN ProcessSections(Tail(sections), uniqueConstraints, acc \o section)
         ELSE LET r == DedupLines(SplitLines(section, 1, <<>>, <<>>),
                                  uniqueConstraints, <<>>)
              IN  ProcessSections(Tail(sections), r.seen, acc \o JoinLines(r.lines))

removeDuplicateAlterTableStatements(sql) ==
    ProcessSections(SplitSections(sql, 1, <<>>, <<>>), {}, <<>>)

-----------------------------------------------------------------------------
(* fixCommonSqlIssues (sql-validation): its rule set here is the one rule    *)
(* the design names first, a missing terminator of the last statement.      *)

\* position k lies in a comment: a -- on its line at or before it
InComment(sql, k) == \E j \in 1..k : sql[j] = "--" /\ LineEnd(sql, j) >= k

\* the position of the last token of the last statement: neither whitespace
\* nor part of a comment; 0 when the text holds no statement
Last(positions) ==
    IF positions = {} THEN 0 ELSE CHOOSE k \in positions : \A j \in positions : j <= k

LastStatementToken(sql) ==
    Last({k \in 1..Len(sql) : sql[k] \notin WS /\ ~InComment(sql, k)})

TerminatedAt(sql, k) ==
    IF k = 0 \/ Tok(sql, k) = ";" THEN sql
    ELSE Slice(sql, 1, k) \o <<";">> \o Slice(sql, k + 1, Len(sql))

fixCommonSqlIssues(sql) == TerminatedAt(sql, LastStatementToken(sql))

\* the repair passes of a manual apply, in the order of the code
Repair(sql) ==
    removeDuplicateAlterTableStatements(fixCommonSqlIssues(ensureTableNamesAreQuoted(sql)))

-----------------------------------------------------------------------------
(* Values of the schema graph *)

Undefined == "undefined"

Null == "null"

\* a falsy value of the program, over the values the model uses
Falsy(v) == v \in {Undefined, Null, ""}

Dialects == {"postgresql", "mysql", "sqlite"}

defaultSettings == [caseSensitiveIdentifiers |-> FALSE, useInlineConstraints |-> TRUE]

-----------------------------------------------------------------------------
(* Dialect Type Map: the physical type token of a logical type, the quote    *)
(* character and the enum support of a dialect.                              *)

PhysicalType(dialect, type) ==
    CASE type = "uuid" ->
            (CASE dialect = "postgresql" -> "UUID" [] dialect = "mysql" -> "CHAR"
               [] OTHER -> "TEXT")
      [] type = "varchar" ->
            (CASE dialect = "sqlite" -> "TEXT" [] OTHER -> "VARCHAR")
      [] type = "int4" ->
            (CASE dialect = "mysql" -> "INT" [] OTHER -> "INTEGER")
      [] OTHER -> "TEXT"

\* the inverse of the map; Undefined for a token that is no type
LogicalType(token) ==
    CASE ToUpperCase(token) \in {"UUID", "uuid", "CHAR"} -> "uuid"
      [] ToUpperCase(token) \in {"VARCHAR", "varchar"} -> "varchar"
      [] ToUpperCase(token) \in {"INTEGER", "INT", "int4"} -> "int4"
      [] ToUpperCase(token) \in {"TEXT", "text"} -> "text"
      [] OTHER -> Undefined

QuoteChar(dialect) == IF dialect = "mysql" THEN Backtick ELSE "\""

SupportsEnums(dialect) == dialect = "postgresql"

\* the word tokens of a name (a name of two words is the only one with a space)
NameTokens(name) ==
    CASE name = "my table" -> <<"my", " ", "table">>
      [] name = "orders ADD" -> <<"orders", " ", "ADD">>
      [] OTHER -> <<name>>

\* the name that a sequence of words spells, single spaces between them
RECURSIVE JoinWords(_)
JoinWords(ws) ==
    IF ws = <<>> THEN ""
    ELSE IF Len(ws) = 1 THEN ws[1]
    ELSE ws[1] \o " " \o JoinWords(Tail(ws))

-----------------------------------------------------------------------------
(* parseSqlToSchema (SQL-Editor/sqlParser): a text is either parsed into    *)
(* tables, edges and enum types, or rejected as a whole with a message.     *)

\* the text without its comments (from -- to the end of the line)
RECURSIVE StripComments(_, _, _)
StripFrom(s, i, acc, j) ==
    IF j = 0 THEN acc \o Slice(s, i, Len(s))
    ELSE StripComments(s, LineEnd(s, j) + 1, acc \o Slice(s, i, j - 1))

StripComments(s, i, acc) == StripFrom(s, i, acc, First({k \in i..Len(s) : s[k] = "--"}))

\* a text without its whitespace tokens
NoWs(t) == SelectSeq(t, LAMBDA x : x \notin WS)

\* the statements found so far and one more, unless it is empty
WithStatement(acc, stmt) == IF stmt = <<>> THEN acc ELSE Append(acc, stmt)

\* the statements of a text: the tokens between the terminators, whitespace
\* dropped, empty statements dropped
RECURSIVE SplitStatements(_, _, _, _)
StatementsFrom(s, i, cur, acc, j) ==
    IF j = 0 THEN WithStatement(acc, cur \o NoWs(Slice(s, i, Len(s))))
    ELSE SplitStatements(s, j + 1, <<>>,
                         WithStatement(acc, cur \o NoWs(Slice(s, i, j - 1))))

SplitStatements(s, i, cur, acc) ==
    StatementsFrom(s, i, cur, acc, First({k \in i..Len(s) : s[k] = ";"}))

\* the position of the quote that closes the one at position i, or 0
RECURSIVE ClosingQuote(_, _, _)
ClosingQuote(t, i, j) ==
    IF j > Len(t) THEN 0
    ELSE IF t[j] = t[i] THEN j
    ELSE IF IsWord(t[j]) THEN ClosingQuote(t, i, j + 1)
    ELSE 0

NoIdent == [ok |-> FALSE, name |-> "", next |-> 0]

\* an identifier at position i: a bare word, or words in double quotes or
\* backticks; the quoting is stripped
ParseIdent(t, i) ==
    IF Tok(t, i) \in {"\"", Backtick}
    THEN LET j == ClosingQuote(t, i, i + 1) IN
         IF j > i + 1 THEN [ok |-> TRUE, name |-> JoinWords(Slice(t, i + 1, j - 1)),
                            next |-> j + 1]
         ELSE NoIdent
    ELSE IF IsWord(Tok(t, i)) THEN [ok |-> TRUE, name |-> t[i], next |-> i + 1]
    ELSE NoIdent

Kw(t, i) == ToUpperCase(Tok(t, i))

KwAt(t, i, kws) == \A k \in 1..Len(kws) : Kw(t, i + k - 1) = kws[k]

\* the column clauses of a table body: the tokens between the commas that are
\* not inside parentheses
RECURSIVE SplitClauses(_, _, _, _, _)
SplitClauses(t, i, depth, cur, acc) ==
    IF i > Len(t) THEN (IF cur = <<>> THEN acc ELSE Append(acc, cur))
    ELSE IF t[i] = "," /\ depth = 0 THEN SplitClauses(t, i + 1, depth, <<>>, Append(acc, cur))
    ELSE SplitClauses(t, i + 1,
                      IF t[i] = "(" THEN depth + 1 ELSE IF t[i] = ")" THEN depth - 1 ELSE depth,
                      Append(cur, t[i]), acc)

HasKw(t, kws) == \E i \in 1..Len(t) : KwAt(t, i, kws)

\* the constraint tags of a column clause, in the order of the vocabulary
ClauseConstraints(t) ==
    (IF HasKw(t, <<"PRIMARY", "KEY">>) THEN <<"primary">> ELSE <<>>)
    \o (IF HasKw(t, <<"UNIQUE">>) THEN <<"unique">> ELSE <<>>)
    \o (IF HasKw(t, <<"NOT", "NULL">>) THEN <<"notnull">> ELSE <<>>)

NoReference == [has |-> FALSE, ok |-> TRUE, target |-> "", targetColumn |-> ""]

BadReference == [has |-> TRUE, ok |-> FALSE, target |-> "", targetColumn |-> ""]

\* ( column ) after the target table of a reference
ReferenceColumn(t, tgt, col) ==
    IF col.ok /\ Tok(t, col.next) = ")"
    THEN [has |-> TRUE, ok |-> TRUE, target |-> tgt.name, targetColumn |-> col.name]
    ELSE BadReference

ReferenceTarget(t, tgt) ==
    IF tgt.ok /\ Tok(t, tgt.next) = "("
    THEN ReferenceColumn(t, tgt, ParseIdent(t, tgt.next + 1))
    ELSE BadReference

\* an inline REFERENCES table(column) of a column clause, when it has one
ClauseReference(t) ==
    IF \E i \in 1..Len(t) : Kw(t, i) = "REFERENCES"
    THEN ReferenceTarget(t, ParseIdent(t, 1 + CHOOSE k \in 1..Len(t) : Kw(t, k) = "REFERENCES"))
    ELSE NoReference

ColumnFailure(msg) == [ok |-> FALSE, message |-> msg]

ColumnParsed(t, k, title, type, ref) ==
    IF type = Undefined THEN ColumnFailure("Unknown column type")
    ELSE IF ~ref.ok THEN ColumnFailure("Invalid REFERENCES clause")
    ELSE [ok |-> TRUE, message |-> "",
          column |-> [id |-> "col-" \o ToString(k), title |-> title.name, type |-> type,
                      constraints |-> ClauseConstraints(t)
                          \o (IF ref.has THEN <<"foreign-key">> ELSE <<>>)],
          ref |-> ref]

ColumnTitled(t, k, title) ==
    IF ~title.ok THEN ColumnFailure("Invalid column definition")
    ELSE ColumnParsed(t, k, title, LogicalType(Tok(t, title.next)), ClauseReference(t))

\* one column clause: name, type token, constraints
ParseColumn(t, k) == ColumnTitled(t, k, ParseIdent(t, 1))

EmptyParse == [ok |-> TRUE, message |-> "", tables |-> <<>>, edges |-> <<>>, enumTypes |-> <<>>]

ParseFailure(msg) ==
    [ok |-> FALSE, message |-> msg, tables |-> <<>>, edges |-> <<>>, enumTypes |-> <<>>]

\* the edges of the inline references of the columns of a table
ColumnEdges(label, cols) ==
    LET withRef == SelectSeq(cols, LAMBDA c : c.ref.has) IN
    [k \in 1..Len(withRef) |->
        [name |-> "fk_" \o label \o "_" \o withRef[k].column.title,
         source |-> label, sourceColumn |-> withRef[k].column.title,
         target |-> withRef[k].ref.target, targetColumn |-> withRef[k].ref.targetColumn]]

FirstBad(cols) == First({k \in 1..Len(cols) : ~cols[k].ok})

TableOfColumns(g, label, cols) ==
    IF FirstBad(cols) # 0 THEN ParseFailure(cols[FirstBad(cols)].message)
    ELSE [g EXCEPT !.tables = Append(@, [label |-> label,
                                         schema |-> [k \in 1..Len(cols) |-> cols[k].column]]),
                   !.edges = @ \o ColumnEdges(label, cols)]

TableOfClauses(g, label, clauses) ==
    TableOfColumns(g, label, [k \in 1..Len(clauses) |-> ParseColumn(clauses[k], k)])

TableNamed(t, g, name) ==
    IF name.ok /\ Tok(t, name.next) = "(" /\ t[Len(t)] = ")"
    THEN TableOfClauses(g, name.name,
                        SplitClauses(Slice(t, name.next + 1, Len(t) - 1), 1, 0, <<>>, <<>>))
    ELSE ParseFailure("Invalid CREATE TABLE statement")

\* CREATE TABLE [IF NOT EXISTS] name ( clauses )
ParseCreateTable(t, g) ==
    TableNamed(t, g, ParseIdent(t, IF KwAt(t, 3, <<"IF", "NOT", "EXISTS">>) THEN 6 ELSE 3))

AlterFailure == ParseFailure("Invalid ALTER TABLE statement")

AlterTargetColumn(t, g, src, cn, col, tgt, tcol) ==
    IF tcol.ok /\ Tok(t, tcol.next) = ")"
    THEN [g EXCEPT !.edges = Append(@, [name |-> cn.name, source |-> src.name,
                                        sourceColumn |-> col.name, target |-> tgt.name,
                                        targetColumn |-> tcol.name])]
    ELSE AlterFailure

AlterTarget(t, g, src, cn, col, tgt) ==
    IF tgt.ok /\ Tok(t, tgt.next) = "("
    THEN AlterTargetColumn(t, g, src, cn, col, tgt, ParseIdent(t, tgt.next + 1))
    ELSE AlterFailure

AlterColumn(t, g, src, cn, col) ==
    IF col.ok /\ KwAt(t, col.next, <<")", "REFERENCES">>)
    THEN AlterTarget(t, g, src, cn, col, ParseIdent(t, col.next + 2))
    ELSE AlterFailure

AlterConstraint(t, g, src, cn) ==
    IF cn.ok /\ KwAt(t, cn.next, <<"FOREIGN", "KEY", "(">>)
    THEN AlterColumn(t, g, src, cn, ParseIdent(t, cn.next + 3))
    ELSE AlterFailure

AlterSource(t, g, src) ==
    IF src.ok /\ KwAt(t, src.next, <<"ADD", "CONSTRAINT">>)
    THEN AlterConstraint(t, g, src, ParseIdent(t, src.next + 2))
    ELSE AlterFailure

\* ALTER TABLE name ADD CONSTRAINT name FOREIGN KEY ( column ) REFERENCES name ( column )
ParseAlterTable(t, g) == AlterSource(t, g, ParseIdent(t, 3))

\* the values 'a', 'b', ... of an enum, or a failure
RECURSIVE ParseEnumValues(_, _, _)
ParseEnumValues(t, i, acc) ==
    IF Tok(t, i) = "'" /\ IsWord(Tok(t, i + 1)) /\ Tok(t, i + 2) = "'"
    THEN IF Tok(t, i + 3) = "," THEN ParseEnumValues(t, i + 4, Append(acc, t[i + 1]))
         ELSE IF Tok(t, i + 3) = ")" /\ i + 3 = Len(t)
              THEN [ok |-> TRUE, values |-> Append(acc, t[i + 1])]
         ELSE [ok |-> FALSE, values |-> <<>>]
    ELSE [ok |-> FALSE, values |-> <<>>]

EnumOfValues(g, name, vals) ==
    IF vals.ok
    THEN [g EXCEPT !.enumTypes = Append(@, [name |-> name.name, values |-> vals.values])]
    ELSE ParseFailure("Invalid CREATE TYPE statement")

EnumNamed(t, g, name) ==
    IF name.ok /\ KwAt(t, name.next, <<"AS", "ENUM", "(">>)
    THEN EnumOfValues(g, name, ParseEnumValues(t, name.next + 3, <<>>))
    ELSE ParseFailure("Invalid CREATE TYPE statement")

\* CREATE TYPE name AS ENUM ( values )
ParseCreateType(t, g) == EnumNamed(t, g, ParseIdent(t, 3))

\* the statements in order; the first failure fails the whole parse, other
\* kinds of statement are skipped
ParseStatement(t, g) ==
    CASE KwAt(t, 1, <<"CREATE", "TABLE">>) -> ParseCreateTable(t, g)
      [] KwAt(t, 1, <<"ALTER", "TABLE">>) -> ParseAlterTable(t, g)
      [] KwAt(t, 1, <<"CREATE", "TYPE">>) -> ParseCreateType(t, g)
      [] OTHER -> g

RECURSIVE ParseStatements(_, _)
ParseStatements(stmts, g) ==
    IF stmts = <<>> \/ ~g.ok THEN g
    ELSE ParseStatements(Tail(stmts), ParseStatement(Head(stmts), g))

parseSqlToSchema(sql) ==
    ParseStatements(SplitStatements(StripComments(sql, 1, <<>>), 1, <<>>, <<>>), EmptyParse)

-----------------------------------------------------------------------------
(* generateSql (SQL-Editor/sqlGenerators): the DDL text of a graph for a     *)
(* dialect and the settings.                                                 *)

RECURSIVE Flatten(_)
Flatten(ss) == IF ss = <<>> THEN <<>> ELSE Head(ss) \o Flatten(Tail(ss))

\* an identifier as emitted: quoted when the setting asks for it and always
\* when it holds whitespace
QuoteName(dialect, s, name) ==
    IF s.caseSensitiveIdentifiers \/ Len(NameTokens(name)) > 1
    THEN <<QuoteChar(dialect)>> \o NameTokens(name) \o <<QuoteChar(dialect)>>
    ELSE <<name>>

HasColumn(ns, label, title) ==
    \E i \in 1..Len(ns) :
        ns[i].label = label /\ \E k \in 1..Len(ns[i].schema) : ns[i].schema[k].title = title

\* an edge whose two ends exist in the graph; the others are skipped
ValidEdge(ns, e) ==
    HasColumn(ns, e.source, e.sourceColumn) /\ HasColumn(ns, e.target, e.targetColumn)

HasTag(col, tag) == \E k \in 1..Len(col.constraints) : col.constraints[k] = tag

GenReference(dialect, s, ns, es, label, col) ==
    LET mine == SelectSeq(es, LAMBDA e : e.source = label /\ e.sourceColumn = col.title
                                           /\ ValidEdge(ns, e))
    IN  IF s.useInlineConstraints /\ mine # <<>>
        THEN <<" ", "REFERENCES", " ">> \o QuoteName(dialect, s, mine[1].target)
             \o <<"(">> \o QuoteName(dialect, s, mine[1].targetColumn) \o <<")">>
        ELSE <<>>

GenColumn(dialect, s, ns, es, label, col) ==
    QuoteName(dialect, s, col.title) \o <<" ", PhysicalType(dialect, col.type)>>
    \o (IF HasTag(col, "notnull") THEN <<" ", "NOT", " ", "NULL">> ELSE <<>>)
    \o (IF HasTag(col, "unique") THEN <<" ", "UNIQUE">> ELSE <<>>)
    \o (IF HasTag(col, "primary") THEN <<" ", "PRIMARY", " ", "KEY">> ELSE <<>>)
    \o GenReference(dialect, s, ns, es, label, col)

GenIndex(dialect, s, label, col) ==
    IF HasTag(col, "index")
    THEN <<"CREATE", " ", "INDEX", " ", "idx_" \o label \o "_" \o col.title, " ", "ON", " ">>
         \o QuoteName(dialect, s, label) \o <<" ", "(">> \o QuoteName(dialect, s, col.title)
         \o <<")", ";", "\n">>
    ELSE <<>>

GenTable(dialect, s, ns, es, n) ==
    <<"CREATE", " ", "TABLE", " ">> \o QuoteName(dialect, s, n.label) \o <<" ", "(">>
    \o Flatten([k \in 1..Len(n.schema) |->
                   (IF k > 1 THEN <<",", " ">> ELSE <<>>)
                   \o GenColumn(dialect, s, ns, es, n.label, n.schema[k])])
    \o <<")", ";", "\n">>
    \o Flatten([k \in 1..Len(n.schema) |-> GenIndex(dialect, s, n.label, n.schema[k])])

GenEnum(dialect, s, e) ==
    <<"CREATE", " ", "TYPE", " ">> \o QuoteName(dialect, s, e.name)
    \o <<" ", "AS", " ", "ENUM", " ", "(">>
    \o Flatten([k \in 1..Len(e.values) |->
                   (IF k > 1 THEN <<",", " ">> ELSE <<>>) \o <<"'", e.values[k], "'">>])
    \o <<")", ";", "\n">>

GenAlter(dialect, s, e) ==
    <<"ALTER", " ", "TABLE", " ">> \o QuoteName(dialect, s, e.source)
    \o <<" ", "ADD", " ", "CONSTRAINT", " ">> \o QuoteName(dialect, s, e.name)
    \o <<" ", "FOREIGN", " ", "KEY", " ", "(">> \o QuoteName(dialect, s, e.sourceColumn)
    \o <<")", " ", "REFERENCES", " ">> \o QuoteName(dialect, s, e.target)
    \o <<"(">> \o QuoteName(dialect, s, e.targetColumn) \o <<")", ";", "\n">>

generateSql(dialect, ns, es, enums, s) ==
    LET deferred == IF s.useInlineConstraints THEN <<>>
                    ELSE SelectSeq(es, LAMBDA e : ValidEdge(ns, e))
    IN  (IF SupportsEnums(dialect)
         THEN Flatten([k \in 1..Len(enums) |-> GenEnum(dialect, s, enums[k])]) ELSE <<>>)
        \o Flatten([i \in 1..Len(ns) |-> GenTable(dialect, s, ns, es, ns[i])])
        \o (IF deferred = <<>> THEN <<>>
            ELSE <<"--", " ">> \o FkHeaderWords \o <<"\n">>
                 \o Flatten([k \in 1..Len(deferred) |-> GenAlter(dialect, s, deferred[k])]))

-----------------------------------------------------------------------------
(* The merge of the parsed nodes with the nodes of the store                 *)
(* (preservedNodes of handleApplySqlChangesInternal)                         *)

\* schema.nodes.find(n => n.id === newNode.id)
ExistingNode(schemaNodes, newNode) ==
    First({i \in 1..Len(schemaNodes) : schemaNodes[i].id = newNode.id})

\* the lookup by label, made only when the lookup by id found nothing
ExistingNodeByLabel(schemaNodes, newNode) ==
    IF ExistingNode(schemaNodes, newNode) = 0
    THEN First({i \in 1..Len(schemaNodes) :
                   /\ ~Falsy(schemaNodes[i].label)
                   /\ ~Falsy(newNode.label)
                   /\ ToLowerCase(schemaNodes[i].label) = ToLowerCase(newNode.label)})
    ELSE 0

\* the match, or the first stored table when there is none
MatchOrFirst(schemaNodes, match) ==
    IF match # 0 \/ schemaNodes = <<>> THEN match ELSE 1

NodeToPreserveOrFirst(schemaNodes, newNode) ==
    IF ExistingNode(schemaNodes, newNode) # 0 THEN ExistingNode(schemaNodes, newNode)
    ELSE MatchOrFirst(schemaNodes, ExistingNodeByLabel(schemaNodes, newNode))

\* the first stored table with the label, whatever the lookup by id found
LabelThenId(schemaNodes, newNode, byLabel) ==
    IF byLabel # 0 THEN byLabel ELSE ExistingNode(schemaNodes, newNode)

NodeToPreserveLabelFirst(schemaNodes, newNode) ==
    LabelThenId(schemaNodes, newNode,
                First({i \in 1..Len(schemaNodes) :
                          ToLowerCase(schemaNodes[i].label) = ToLowerCase(newNode.label)}))

\* existingNode || existingNodeByLabel
NodeToPreserve(schemaNodes, newNode) ==
    IF ExistingNode(schemaNodes, newNode) # 0 THEN ExistingNode(schemaNodes, newNode)
    ELSE ExistingNodeByLabel(schemaNodes, newNode)

PreserveNodeKeepsParsedStyle(schemaNodes, newNode) ==
    LET k == NodeToPreserve(schemaNodes, newNode) IN
    IF k # 0 /\ ~Falsy(schemaNodes[k].position)
    THEN [newNode EXCEPT
             !.position = schemaNodes[k].position,
             !.color = IF ~Falsy(schemaNodes[k].color) THEN schemaNodes[k].color
                       ELSE newNode.color]
    ELSE newNode

PreserveNodeTakesOldNode(schemaNodes, newNode) ==
    LET k == NodeToPreserve(schemaNodes, newNode) IN
    IF k # 0 /\ ~Falsy(schemaNodes[k].position)
    THEN [schemaNodes[k] EXCEPT
             !.id = newNode.id,
             !.color = IF ~Falsy(schemaNodes[k].color) THEN schemaNodes[k].color
                       ELSE newNode.color]
    ELSE newNode

PreserveNode(schemaNodes, newNode) ==
    LET k == NodeToPreserve(schemaNodes, newNode) IN
    IF k # 0 /\ ~Falsy(schemaNodes[k].position)
    THEN [newNode EXCEPT
             !.position = schemaNodes[k].position,
             !.style = schemaNodes[k].style,
             !.color = IF ~Falsy(schemaNodes[k].color) THEN schemaNodes[k].color
                       ELSE newNode.color]
    ELSE newNode

preservedNodes(schemaNodes, parsedNodes) ==
    [i \in 1..Len(parsedNodes) |-> PreserveNode(schemaNodes, parsedNodes[i])]

-----------------------------------------------------------------------------
(* Bounds and inputs *)

\* the number of node ids the parser can draw fresh ids from
IdPoolSize == 6

\* the number of user events of a session that are followed
MaxSteps == 4

\* the number of edits of the canvas and the sidebar of a session that are
\* followed
MaxEdits == 2

\* the number of pending toast actions that are tracked
MaxToasts == 1

\* the number of columns of the tables the sidebar is opened on
MaxColumns == 2

RECURSIVE Spaced(_)
Spaced(ws) ==
    IF ws = <<>> THEN <<>>
    ELSE IF Len(ws) = 1 THEN ws
    ELSE <<ws[1], " ">> \o Spaced(Tail(ws))

\* CREATE TABLE users (id uuid PRIMARY KEY);
TUsers ==
    Spaced(<<"CREATE", "TABLE", "users", "(">>)
    \o Spaced(<<"id", "uuid", "PRIMARY", "KEY">>) \o <<")", ";">>

\* CREATE TABLE my table (id uuid);
TTwoWords ==
    Spaced(<<"CREATE", "TABLE", "my", "table", "(">>) \o Spaced(<<"id", "uuid">>) \o <<")", ";">>

\* CREATE TABLE users (id blob);
TBadType ==
    Spaced(<<"CREATE", "TABLE", "users", "(">>) \o Spaced(<<"id", "blob">>) \o <<")", ";">>

\* CREATE TABLE orders (id uuid);
\* ALTER TABLE orders ADD CONSTRAINT fk1 FOREIGN KEY (id) REFERENCES orders(id);
TForeignKey ==
    Spaced(<<"CREATE", "TABLE", "orders", "(">>) \o Spaced(<<"id", "uuid">>) \o <<")", ";", "\n">>
    \o Spaced(<<"ALTER", "TABLE", "orders", "ADD", "CONSTRAINT", "fk1", "FOREIGN", "KEY", "(">>)
    \o <<"id", ")", " ", "REFERENCES", " ", "orders", "(", "id", ")", ";">>

\* CREATE TYPE mood AS ENUM ('a');
\* CREATE TABLE users (id uuid)
TEnum ==
    Spaced(<<"CREATE", "TYPE", "mood", "AS", "ENUM", "(">>) \o <<"'", "a", "'", ")", ";", "\n">>
    \o Spaced(<<"CREATE", "TABLE", "users", "(">>) \o Spaced(<<"id", "uuid">>) \o <<")">>

\* SELECT 1;
TSelect == <<"SELECT", " ", "1", ";">>

\* the texts the user types into the editor
UserTexts == {<<>>, <<" ">>, TUsers, TTwoWords, TBadType, TForeignKey, TEnum, TSelect}

ParserPosition == "auto"

Positions == {"p1", "p2"}

\* the stored schemas the editor is opened on: a new schema, a stored schema
\* without a node list, and a schema with one laid-out table and an enum type
InitialSchemas ==
    { [nodes |-> <<>>, nodesMissing |-> FALSE, edges |-> <<>>, enumTypes |-> <<>>],
      [nodes |-> <<>>, nodesMissing |-> TRUE, edges |-> <<>>, enumTypes |-> <<>>],
      [nodes |-> << [id |-> "n1", label |-> "Users",
                     schema |-> << [id |-> "c1", title |-> "id", type |-> "uuid",
                                    constraints |-> <<"primary">>] >>,
                     position |-> "p1", style |-> "s1", color |-> "red"] >>,
       nodesMissing |-> FALSE, edges |-> <<>>,
       enumTypes |-> << [name |-> "status", values |-> <<"on", "off">>] >>] }

-----------------------------------------------------------------------------
(* The sidebar: the schema each operation hands to onUpdateNode              *)

\* the milliseconds of Date.now() that are followed: two calls can fall into
\* the same millisecond
MaxClock == 2

\* the number of operations of a session of the sidebar on its own
MaxSidebarOps == 3

\* what the user enters in the sidebar of the editor on a stored table: a
\* table name, a column title, a column type, a constraint
TypedLabels == {"orders"}

EditedTitles == {"name"}

EditedTypes == {"varchar"}

EditedTags == {"notnull"}

SidebarTitles == {"id", "name"}

\* the titles the user types into the title field of a column
TypedTitles == {"id", "name", "new_column"}

SidebarTypes == {"uuid", "varchar"}

SidebarTags == {"primary", "notnull"}

\* the schema addColumn hands to onUpdateNode
addColumnSchema(schema, now) ==
    Append(schema, [title |-> "new_column", type |-> "varchar", constraints |-> <<>>,
                    id |-> ToString(now)])

\* existingTitles.includes(value): the titles of the other columns
TitleTaken(schema, index, value) ==
    \E k \in 1..Len(schema) : k # index /\ schema[k].title = value

\* the value updateColumn stores; the suffix is the position counted from 0
StoredValue(schema, index, field, value) ==
    IF field = "title" /\ TitleTaken(schema, index, value)
    THEN value \o "_" \o ToString(index - 1)
    ELSE value

updateColumn(schema, index, field, value) ==
    [schema EXCEPT ![index] = [@ EXCEPT ![field] = StoredValue(schema, index, field, value)]]

\* newSchema.splice(index, 1)
removeColumn(schema, index) ==
    SubSeq(schema, 1, index - 1) \o SubSeq(schema, index + 1, Len(schema))

HasConstraint(column, constraint) ==
    \E k \in 1..Len(column.constraints) : column.constraints[k] = constraint

toggleConstraintAlwaysAdds(schema, index, constraint) ==
    [schema EXCEPT ![index].constraints = Append(@, constraint)]

toggleConstraint(schema, index, constraint) ==
    [schema EXCEPT ![index].constraints =
        IF HasConstraint(schema[index], constraint)
        THEN SelectSeq(@, LAMBDA c : c # constraint)
        ELSE Append(@, constraint)]

-----------------------------------------------------------------------------
(* The component: its state as one record, the pipeline, the effects         *)

\* runs counts the runs of the pipeline made by the handler of the step and
\* by the effects of its render, late those made by effects of the render
\* before, run late at the start of the step
NoObs ==
    [op |-> "mount", runs |-> 0, live |-> FALSE, outcome |-> "none", parserInput |-> <<>>,
     late |-> 0]

Obs(op) == [NoObs EXCEPT !.op = op]

\* the state of the first render: the useState defaults over the stored schema
FirstRender(schema) ==
    [nodes |-> schema.nodes, nodesMissing |-> schema.nodesMissing, edges |-> schema.edges,
     enumTypes |-> schema.enumTypes, settings |-> defaultSettings, code |-> <<>>,
     appliedSql |-> <<>>, dbType |-> "postgresql", sqlContent |-> <<>>,
     editableSql |-> <<>>, isEditing |-> FALSE, error |-> Null, liveEditMode |-> FALSE,
     settingsMissing |-> TRUE, clock |-> 1, obs |-> NoObs]

NodeIds(ns) == {ns[i].id : i \in 1..Len(ns)}

\* the ids the parser gives its tables: fresh ones, the first of the pool that
\* no node in sight uses
FreshIds(used) ==
    SelectSeq([k \in 1..IdPoolSize |-> "n" \o ToString(k)], LAMBDA x : x \notin used)

ParsedNodes(parsed, used) ==
    [i \in 1..Len(parsed.tables) |->
        [id |-> FreshIds(used)[i], label |-> parsed.tables[i].label,
         schema |-> parsed.tables[i].schema,
         position |-> ParserPosition, style |-> Undefined, color |-> Undefined]]

\* handleUpdateSchema, called from the render c: updateNodes, updateEdges,
\* updateSchema({enumTypes}) when some are given, updateCode(editableSql)
handleUpdateSchema(c, st, newNodes, newEdges, newEnumTypes) ==
    [st EXCEPT !.nodes = newNodes, !.nodesMissing = FALSE, !.edges = newEdges,
               !.enumTypes = IF Len(newEnumTypes) > 0 THEN newEnumTypes ELSE @,
               !.code = c.editableSql]

\* the text handed to the parser
ProcessedSql(sql, isLiveUpdate) == IF isLiveUpdate THEN sql ELSE Repair(sql)

\* one more run of the pipeline in the observation of the step
Ran(st, isLiveUpdate, outcome, input) ==
    [st.obs EXCEPT !.runs = @ + 1, !.live = isLiveUpdate, !.outcome = outcome,
                   !.parserInput = input]

RejectEmptyClearsRollback(st, isLiveUpdate) ==
    [st EXCEPT !.error = "SQL cannot be empty", !.appliedSql = <<>>,
               !.obs = Ran(st, isLiveUpdate, "empty", <<>>)]

\* the guard on empty text: setError("SQL cannot be empty"); return
RejectEmpty(st, isLiveUpdate) ==
    [st EXCEPT !.error = "SQL cannot be empty", !.obs = Ran(st, isLiveUpdate, "empty", <<>>)]

CatchParseErrorResetsApplied(st, isLiveUpdate, outcome, message, processedSql) ==
    [st EXCEPT !.error = "Failed to parse SQL: " \o message,
               !.appliedSql = processedSql,
               !.obs = Ran(st, isLiveUpdate, outcome, processedSql)]

\* catch (parseError): setError(`Failed to parse SQL: ${parseError.message}`)
CatchParseError(st, isLiveUpdate, outcome, message, processedSql) ==
    [st EXCEPT !.error = "Failed to parse SQL: " \o message,
               !.obs = Ran(st, isLiveUpdate, outcome, processedSql)]

CommitParsedLeavesEditing(c, st, parsedSchema, parsedNodes, processedSql, isLiveUpdate) ==
    [handleUpdateSchema(c, st, preservedNodes(c.nodes, parsedNodes),
                        parsedSchema.edges, parsedSchema.enumTypes)
        EXCEPT !.error = Null,
               !.appliedSql = processedSql,
               !.isEditing = FALSE,
               !.obs = Ran(st, isLiveUpdate, "committed", processedSql)]

\* if (parsedSchema) { ... }: the merge, handleUpdateSchema, setAppliedSql and,
\* for a manual apply, setIsEditing(false)
CommitParsed(c, st, parsedSchema, parsedNodes, processedSql, isLiveUpdate) ==
    [handleUpdateSchema(c, st, preservedNodes(c.nodes, parsedNodes),
                        parsedSchema.edges, parsedSchema.enumTypes)
        EXCEPT !.error = Null,
               !.appliedSql = processedSql,
               !.isEditing = IF isLiveUpdate THEN @ ELSE FALSE,
               !.obs = Ran(st, isLiveUpdate, "committed", processedSql)]

TryCommitSkipsEmptySchema(c, st, parsedSchema, processedSql, isLiveUpdate) ==
    IF ~parsedSchema.ok
    THEN CatchParseError(st, isLiveUpdate, "parse-failed", parsedSchema.message, processedSql)
    ELSE IF parsedSchema.tables = <<>>
    THEN [st EXCEPT !.error = Null, !.obs = Ran(st, isLiveUpdate, "no-schema", processedSql)]
    ELSE IF c.nodesMissing
    THEN CatchParseError(st, isLiveUpdate, "threw", "Cannot read properties of undefined (reading 'find')",
                         processedSql)
    ELSE CommitParsed(c, st, parsedSchema,
                      ParsedNodes(parsedSchema, NodeIds(st.nodes) \cup NodeIds(c.nodes)),
                      processedSql, isLiveUpdate)

\* the inner try block on the result of the parser: the parser threw, or
\* schema.nodes.find threw because the stored schema has no node list and the
\* parser returned a table, or the schema is committed
TryCommit(c, st, parsedSchema, processedSql, isLiveUpdate) ==
    IF ~parsedSchema.ok
    THEN CatchParseError(st, isLiveUpdate, "parse-failed", parsedSchema.message, processedSql)
    ELSE IF c.nodesMissing /\ parsedSchema.tables # <<>>
    THEN CatchParseError(st, isLiveUpdate, "threw", "Cannot read properties of undefined (reading 'find')",
                         processedSql)
    ELSE CommitParsed(c, st, parsedSchema,
                      ParsedNodes(parsedSchema, NodeIds(st.nodes) \cup NodeIds(c.nodes)),
                      processedSql, isLiveUpdate)

ParseProcessed(c, st, processedSql, isLiveUpdate) ==
    TryCommit(c, st, parseSqlToSchema(processedSql), processedSql, isLiveUpdate)

\* handleApplySqlChangesInternal, called from the render c (its schema.nodes
\* and editableSql) on the state st
handleApplySqlChangesInternal(c, st, sql, isLiveUpdate) ==
    IF Trim(sql) = <<>> THEN RejectEmpty(st, isLiveUpdate)
    ELSE ParseProcessed(c, st, ProcessedSql(sql, isLiveUpdate), isLiveUpdate)

GeneratedWithDefaultSettings(c) ==
    generateSql(c.dbType, c.nodes, c.edges, c.enumTypes, defaultSettings)

\* generateSql(dbType, nodes, edges, enumTypes, settings) on the values of a render
Generated(c) == generateSql(c.dbType, c.nodes, c.edges, c.enumTypes, c.settings)

\* if (!schema.settings) updateSettings(defaultSettings), with the schema of
\* the render c
InitSettings(c, acc) ==
    IF c.settingsMissing
    THEN [acc EXCEPT !.settings = defaultSettings, !.settingsMissing = FALSE]
    ELSE acc

\* the first generation, when the appliedSql of the render c is empty
FirstGeneration(c, acc, newSql) ==
    IF c.appliedSql = <<>>
    THEN [acc EXCEPT !.appliedSql = newSql, !.sqlContent = newSql, !.editableSql = newSql]
    ELSE acc

\* the mount effect []
MountEffect(c, acc, newSql) == FirstGeneration(c, InitSettings(c, acc), newSql)

\* effect [dbType]
DbTypeEffect(c, acc, newSql) ==
    IF ~c.isEditing
    THEN [acc EXCEPT !.sqlContent = newSql, !.editableSql = newSql,
                     !.appliedSql = newSql, !.code = newSql]
    ELSE [acc EXCEPT !.sqlContent = newSql]

\* effect [settings.caseSensitiveIdentifiers, settings.useInlineConstraints]
SettingsEffect(c, acc, newSql) ==
    IF ~c.isEditing
    THEN [acc EXCEPT !.sqlContent = newSql, !.appliedSql = newSql,
                     !.editableSql = newSql, !.code = newSql]
    ELSE acc

\* effect [editableSql, liveEditMode, isEditing]
LiveUpdateEffect(c, acc) ==
    IF c.isEditing /\ c.liveEditMode /\ c.editableSql # <<>>
    THEN handleApplySqlChangesInternal(c, acc, c.editableSql, TRUE)
    ELSE acc

\* effect [dbType, settings.caseSensitiveIdentifiers, settings.useInlineConstraints]
ForceReparseEffect(c, acc, newSql) ==
    [acc EXCEPT !.sqlContent = newSql, !.appliedSql = newSql,
                !.editableSql = IF ~c.isEditing THEN newSql ELSE @,
                !.code = newSql]

DbTypeChanged(p, c, mount) == mount \/ p.dbType # c.dbType

SettingsChanged(p, c, mount) == mount \/ p.settings # c.settings

EditChangedOrApplied(p, c, mount) ==
    mount \/ p.editableSql # c.editableSql \/ p.liveEditMode # c.liveEditMode
          \/ p.isEditing # c.isEditing \/ p.appliedSql # c.appliedSql

EditChanged(p, c, mount) ==
    mount \/ p.editableSql # c.editableSql \/ p.liveEditMode # c.liveEditMode
          \/ p.isEditing # c.isEditing

AfterMount(c, mount, newSql, acc) == IF mount THEN MountEffect(c, acc, newSql) ELSE acc

AfterDbType(p, c, mount, newSql, acc) ==
    IF DbTypeChanged(p, c, mount) THEN DbTypeEffect(c, acc, newSql) ELSE acc

AfterSettings(p, c, mount, newSql, acc) ==
    IF SettingsChanged(p, c, mount) THEN SettingsEffect(c, acc, newSql) ELSE acc

AfterLiveUpdate(p, c, mount, acc) ==
    IF EditChanged(p, c, mount) THEN LiveUpdateEffect(c, acc) ELSE acc

AfterForceReparse(p, c, mount, newSql, acc) ==
    IF DbTypeChanged(p, c, mount) \/ SettingsChanged(p, c, mount)
    THEN ForceReparseEffect(c, acc, newSql) ELSE acc

EffectsWith(p, c, mount, newSql, st) ==
    AfterForceReparse(p, c, mount, newSql,
        AfterLiveUpdate(p, c, mount,
            AfterSettings(p, c, mount, newSql,
                AfterDbType(p, c, mount, newSql, AfterMount(c, mount, newSql, st)))))

\* the effects of one commit, in the order of their declaration: those whose
\* dependencies differ between the previous render p and this render c (all
\* of them on mount); each reads the values of render c, each generates the
\* same text from them, and their updates are made on the state st: the
\* writes to the store at once, the useState updates queued for a later render
RunEffects(p, c, mount, st) == EffectsWith(p, c, mount, Generated(c), st)

\* the useState values that effects update, as a render shows them
ScreenOf(s) ==
    [appliedSql |-> s.appliedSql, sqlContent |-> s.sqlContent,
     editableSql |-> s.editableSql, error |-> s.error]

\* the render of the state s that shows the values scr for the useState
\* updates that are still queued
Rendered(s, scr) ==
    [s EXCEPT !.appliedSql = scr.appliedSql, !.sqlContent = scr.sqlContent,
              !.editableSql = scr.editableSql, !.error = scr.error]

-----------------------------------------------------------------------------
(* The state machine: one action per user event, each with its render and    *)
(* the effects of that render; the render of the updates that effects made   *)
(* is an action of its own                                                   *)

Cur ==
    [nodes |-> nodes, nodesMissing |-> nodesMissing, edges |-> edges,
     enumTypes |-> enumTypes, settings |-> settings, code |-> code,
     appliedSql |-> appliedSql, dbType |-> dbType, sqlContent |-> sqlContent,
     editableSql |-> editableSql, isEditing |-> isEditing, error |-> error,
     liveEditMode |-> liveEditMode, settingsMissing |-> settingsMissing, clock |-> clock,
     obs |-> last]

Start(op) == [Cur EXCEPT !.obs = Obs(op)]

\* the render on screen: its handlers read these values
Shown == Rendered(Cur, screen)

\* no update of an effect waits for its render
Quiescent == screen = ScreenOf(Cur)

\* the steps of the canvas and the sidebar
EditOps == {"move", "addColumn", "label", "updateColumn", "removeColumn", "toggleConstraint"}

Become(s) ==
    /\ UNCHANGED <<recVars, repVars, sbVars, tplVars>>
    /\ s.obs.op \in EditOps => edits < MaxEdits
    /\ edits' = IF s.obs.op \in EditOps THEN edits + 1 ELSE edits
    /\ snapshot' = IF s.obs.op = "edit" THEN appliedSql ELSE snapshot
    /\ steps < MaxSteps
    /\ steps' = steps + 1
    /\ nodes' = s.nodes
    /\ nodesMissing' = s.nodesMissing
    /\ edges' = s.edges
    /\ enumTypes' = s.enumTypes
    /\ settings' = s.settings
    /\ code' = s.code
    /\ appliedSql' = s.appliedSql
    /\ dbType' = s.dbType
    /\ sqlContent' = s.sqlContent
    /\ editableSql' = s.editableSql
    /\ isEditing' = s.isEditing
    /\ error' = s.error
    /\ liveEditMode' = s.liveEditMode
    /\ settingsMissing' = s.settingsMissing
    /\ clock' = s.clock
    /\ last' = s.obs

\* the values of a render that React keeps to compare the dependencies of
\* the effects of the next render with
Deps(c) == [c EXCEPT !.obs = NoObs]

\* no effect waits
NoPending ==
    [on |-> FALSE, mount |-> FALSE,
     p |-> Deps(FirstRender([nodes |-> <<>>, nodesMissing |-> FALSE, edges |-> <<>>,
                             enumTypes |-> <<>>]))]

DepsChanged(p, c) == DbTypeChanged(p, c, FALSE) \/ SettingsChanged(p, c, FALSE)
                        \/ EditChanged(p, c, FALSE)

\* the effects that wait run, with the values of the render on screen, on
\* the state h that a handler left; their runs of the pipeline are counted
\* as late
CountedLate(h, st) == [st EXCEPT !.obs = [h.obs EXCEPT !.late = st.obs.runs - h.obs.runs]]

LateEffects(h) ==
    IF pending.on
    THEN CountedLate(h, RunEffects(pending.p, Shown, pending.mount, h))
    ELSE h

\* the render of the state st after a handler, that shows the handler's own
\* useState updates scr, and the effects of that render
Commit(st, scr) == RunEffects(Shown, Rendered(st, scr), FALSE, st)

\* an event: the handler left the state h; React runs the effects that still
\* wait, renders the handler's updates at once, which shows scr, and runs the
\* effects of that render
Handled(h, scr) ==
    /\ Become(Commit(LateEffects(h), scr))
    /\ screen' = scr
    /\ pending' = NoPending

\* the state after a step that no user event caused
Renders(s) ==
    /\ nodes' = s.nodes /\ nodesMissing' = s.nodesMissing /\ edges' = s.edges
    /\ enumTypes' = s.enumTypes /\ settings' = s.settings /\ code' = s.code
    /\ appliedSql' = s.appliedSql /\ dbType' = s.dbType /\ sqlContent' = s.sqlContent
    /\ editableSql' = s.editableSql /\ isEditing' = s.isEditing /\ error' = s.error
    /\ liveEditMode' = s.liveEditMode /\ settingsMissing' = s.settingsMissing
    /\ clock' = s.clock
    /\ last' = s.obs
    /\ UNCHANGED <<toasts, notified, steps, snapshot, edits>>
    /\ UNCHANGED <<recVars, repVars, sbVars, tplVars>>

\* React renders the updates that the effects queued; the effects of that
\* render, when a dependency of one changed, wait for a later task
Render ==
    /\ ~pending.on
    /\ ~Quiescent
    /\ Renders(Start("render"))
    /\ screen' = ScreenOf(Cur)
    /\ pending' = IF DepsChanged(Shown, Cur)
                  THEN [on |-> TRUE, mount |-> FALSE, p |-> Deps(Shown)]
                  ELSE NoPending

\* the effects that wait run in a task of their own: those of the first
\* render (the step "mount"), or those of a render of queued updates (the
\* step "effects")
Effects ==
    /\ pending.on
    /\ Renders(RunEffects(pending.p, Shown, pending.mount,
                          Start(IF pending.mount THEN "mount" ELSE "effects")))
    /\ UNCHANGED screen
    /\ pending' = NoPending

\* what a toast action keeps of the render that created it
Closure(s) == [editableSql |-> s.editableSql, nodes |-> s.nodes, nodesMissing |-> s.nodesMissing]

RecIdle == recOld = <<>> /\ recNew = <<>> /\ recOut = <<>> /\ recDone = FALSE

RepIdle == repLines = <<>> /\ repOp = "none" /\ repOut = <<>>

\* no operation of the sidebar yet
NoSidebarOp ==
    [op |-> "none", index |-> 0, field |-> "", value |-> "", before |-> <<>>, n |-> 0]

SbIdle == sbSchema = <<>> /\ sbOp = NoSidebarOp /\ sbClock = 0

\* the browse page as mounted: no details shown, no Use Template click yet
TplIdle ==
    /\ showTemplateInfo = Null /\ tplTemplate = Null /\ tplDepth = 0
    /\ tplOutcome = "none" /\ tplRequested = {}

\* the editor after its first render on a stored schema: the effects of the
\* mount wait
Mounted(schema) ==
    LET s == FirstRender(schema) IN
    /\ nodes = s.nodes
    /\ nodesMissing = s.nodesMissing
    /\ edges = s.edges
    /\ enumTypes = s.enumTypes
    /\ settings = s.settings
    /\ code = s.code
    /\ appliedSql = s.appliedSql
    /\ dbType = s.dbType
    /\ sqlContent = s.sqlContent
    /\ editableSql = s.editableSql
    /\ isEditing = s.isEditing
    /\ error = s.error
    /\ liveEditMode = s.liveEditMode
    /\ settingsMissing = s.settingsMissing
    /\ clock = s.clock
    /\ edits = 0
    /\ pending = [on |-> TRUE, mount |-> TRUE, p |-> Deps(s)]
    /\ last = s.obs
    /\ toasts = {}
    /\ notified = FALSE
    /\ steps = 0
    /\ snapshot = <<>>
    /\ screen = ScreenOf(FirstRender(schema))

Init == RecIdle /\ RepIdle /\ SbIdle /\ TplIdle /\ \E schema \in InitialSchemas : Mounted(schema)

\* an event that shows no toast about pending edits
NoToast == toasts' = toasts /\ notified' = FALSE

\* the dialect Select: onValueChange={setDbType}
SelectDialect(d) ==
    /\ d # dbType
    /\ Handled([Start("dialect") EXCEPT !.dbType = d], screen)
    /\ NoToast

\* the toast of a settings toggle made while editing
ToastAfterToggle ==
    /\ notified' = isEditing
    /\ IF isEditing
       THEN Cardinality(toasts) < MaxToasts /\ toasts' = toasts \cup {Closure(Shown)}
       ELSE UNCHANGED toasts


handleToggleCaseSensitive ==
    /\ Handled([Start("caseSensitive") EXCEPT !.settings.caseSensitiveIdentifiers = ~@,
                                              !.settingsMissing = FALSE],
               screen)
    /\ ToastAfterToggle

handleToggleInlineConstraints ==
    /\ Handled([Start("inlineConstraints") EXCEPT !.settings.useInlineConstraints = ~@,
                                                  !.settingsMissing = FALSE],
               screen)
    /\ ToastAfterToggle

\* the Edit button: setIsEditing(true)
ClickEdit ==
    /\ ~isEditing
    /\ Handled([Start("edit") EXCEPT !.isEditing = TRUE], screen)
    /\ NoToast

\* typing in the editor: setEditableSql(t)
ChangeText(t) ==
    /\ isEditing
    /\ t # screen.editableSql
    /\ Handled([Start("text") EXCEPT !.editableSql = t], [screen EXCEPT !.editableSql = t])
    /\ NoToast

\* the Live checkbox: setLiveEditMode(e.target.checked)
ToggleLive ==
    /\ isEditing
    /\ Handled([Start("live") EXCEPT !.liveEditMode = ~@], screen)
    /\ NoToast

\* the Cancel button: setIsEditing(false); setEditableSql(appliedSql);
\* setError(null), with the appliedSql of the render on screen
cancelEdit ==
    /\ isEditing
    /\ Handled([Start("cancel") EXCEPT !.isEditing = FALSE,
                                       !.editableSql = screen.appliedSql,
                                       !.error = Null],
               [screen EXCEPT !.editableSql = screen.appliedSql, !.error = Null])
    /\ NoToast

\* the useState updates of a manual run h of the pipeline, rendered at once:
\* setError always, setAppliedSql when the run committed
ScreenAfterApply(h) ==
    [screen EXCEPT !.error = h.error,
                   !.appliedSql = IF h.obs.outcome = "committed" THEN h.appliedSql ELSE @]

Applied(h) == Handled(h, ScreenAfterApply(h))

\* the Apply button: handleApplySqlChangesInternal(editableSql) of the render
\* on screen
handleApplySqlChanges ==
    /\ isEditing
    /\ Applied(handleApplySqlChangesInternal(Shown, Start("apply"), screen.editableSql, FALSE))
    /\ NoToast

\* the Apply Now action of a toast: handleApplySqlChanges of the render that
\* created the toast
ToastApplyNow(c) ==
    /\ c \in toasts
    /\ Applied(handleApplySqlChangesInternal(c, Start("applyNow"), c.editableSql, FALSE))
    /\ toasts' = toasts \ {c}
    /\ notified' = FALSE

\* a toast goes away unused
ToastDismiss(c) ==
    /\ c \in toasts
    /\ toasts' = toasts \ {c}
    /\ notified' = FALSE
    /\ steps < MaxSteps
    /\ steps' = steps + 1
    /\ UNCHANGED <<recVars, repVars, sbVars, tplVars>>
    /\ last' = Obs("dismiss")
    /\ UNCHANGED <<snapshot, nodes, nodesMissing, edges, enumTypes, settings, code, appliedSql,
                   dbType, sqlContent, editableSql, isEditing, error, liveEditMode, screen,
                   settingsMissing, pending, clock, edits>>

\* the canvas moves table i
MoveNode(i, pos) ==
    /\ i \in 1..Len(nodes)
    /\ nodes[i].position # pos
    /\ Handled([Start("move") EXCEPT !.nodes[i].position = pos], screen)
    /\ NoToast

\* the sidebar's addColumn on the selected table i, in the millisecond now of
\* Date.now(): the millisecond of the call before or a later one
addColumn(i, now) ==
    /\ i \in 1..Len(nodes)
    /\ now \in clock..MaxClock
    /\ Handled([Start("addColumn") EXCEPT
                   !.nodes[i].schema = addColumnSchema(@, now), !.clock = now], screen)
    /\ NoToast

\* the name field of the sidebar on the selected table i:
\* onUpdateNode({ label: e.target.value })
updateLabel(i, value) ==
    /\ i \in 1..Len(nodes)
    /\ nodes[i].label # value
    /\ Handled([Start("label") EXCEPT !.nodes[i].label = value], screen)
    /\ NoToast

\* a title or type field of column index of the selected table i
SidebarUpdateColumn(i, index, field, value) ==
    /\ i \in 1..Len(nodes)
    /\ index \in 1..Len(nodes[i].schema)
    /\ nodes[i].schema[index][field] # value
    /\ Handled([Start("updateColumn") EXCEPT
                   !.nodes[i].schema = updateColumn(@, index, field, value)], screen)
    /\ NoToast

\* the remove button of column index of the selected table i
SidebarRemove(i, index) ==
    /\ i \in 1..Len(nodes)
    /\ index \in 1..Len(nodes[i].schema)
    /\ Handled([Start("removeColumn") EXCEPT
                   !.nodes[i].schema = removeColumn(@, index)], screen)
    /\ NoToast

\* a constraint checkbox of column index of the selected table i
SidebarToggle(i, index, constraint) ==
    /\ i \in 1..Len(nodes)
    /\ index \in 1..Len(nodes[i].schema)
    /\ Handled([Start("toggleConstraint") EXCEPT
                   !.nodes[i].schema = toggleConstraint(@, index, constraint)], screen)
    /\ NoToast

Next ==
    \/ \E d \in Dialects : SelectDialect(d)
    \/ handleToggleCaseSensitive
    \/ handleToggleInlineConstraints
    \/ ClickEdit
    \/ \E t \in UserTexts : ChangeText(t)
    \/ ToggleLive
    \/ cancelEdit
    \/ handleApplySqlChanges
    \/ \E c \in toasts : ToastApplyNow(c)
    \/ \E c \in toasts : ToastDismiss(c)
    \/ \E i \in 1..Len(nodes), pos \in Positions : MoveNode(i, pos)
    \/ Render
    \/ Effects

Spec == Init /\ [][Next]_vars

\* the edits of the selected table in the sidebar
SidebarEdit ==
    \/ \E i \in 1..Len(nodes), now \in 1..MaxClock : addColumn(i, now)
    \/ \E i \in 1..Len(nodes), value \in TypedLabels : updateLabel(i, value)
    \/ \E i \in 1..Len(nodes) : \E index \in 1..Len(nodes[i].schema), value \in EditedTitles :
           SidebarUpdateColumn(i, index, "title", value)
    \/ \E i \in 1..Len(nodes) : \E index \in 1..Len(nodes[i].schema), value \in EditedTypes :
           SidebarUpdateColumn(i, index, "type", value)
    \/ \E i \in 1..Len(nodes) : \E index \in 1..Len(nodes[i].schema) : SidebarRemove(i, index)
    \/ \E i \in 1..Len(nodes) : \E index \in 1..Len(nodes[i].schema), constraint \in EditedTags :
           SidebarToggle(i, index, constraint)

\* the text the user types while the sidebar is in use
EditorTexts == {TUsers}

\* the editor with its sidebar and canvas: the edits of the selected table
\* between the events of an editing session
EditorNext ==
    \/ SidebarEdit
    \/ \E i \in 1..Len(nodes), pos \in Positions : MoveNode(i, pos)
    \/ \E d \in Dialects : SelectDialect(d)
    \/ ClickEdit
    \/ \E t \in EditorTexts : ChangeText(t)
    \/ ToggleLive
    \/ cancelEdit
    \/ handleApplySqlChanges
    \/ Render
    \/ Effects

SpecEditor == Init /\ [][EditorNext]_vars

-----------------------------------------------------------------------------
(* The merge on its own: every small store graph against every small parsed  *)
(* graph                                                                     *)

MaxOldNodes == 2

MaxNewNodes == 2

OldSchema == << [id |-> "c1", title |-> "id", type |-> "uuid", constraints |-> <<"primary">>] >>

NewSchema ==
    << [id |-> "col-1", title |-> "email", type |-> "varchar", constraints |-> <<"unique">>],
       [id |-> "col-2", title |-> "id", type |-> "int4", constraints |-> <<>>] >>

\* the layouts of a stored table: laid out, without a color, without a
\* style, and never placed on the canvas
OldLayouts ==
    { [position |-> "p1", style |-> "s1", color |-> "red"],
      [position |-> "p2", style |-> "s1", color |-> Undefined],
      [position |-> "p2", style |-> Undefined, color |-> "red"],
      [position |-> Undefined, style |-> "s1", color |-> "red"] }

OldNodeUniverse ==
    { [id |-> i, label |-> l, schema |-> OldSchema,
       position |-> y.position, style |-> y.style, color |-> y.color] :
          i \in {"n1", "n2", "n4"}, l \in {"Users", "USERS", "orders"}, y \in OldLayouts }

NewNodeUniverse ==
    [id : {"n1", "n3"}, label : {"users", "items"}, schema : {NewSchema},
     position : {ParserPosition}, style : {Undefined}, color : {Undefined, "blue"}]

\* the node lists of at most n nodes of U, ids and labels pairwise distinct
Graphs(U, n) ==
    {g \in UNION {[1..k -> U] : k \in 0..n} :
        \A i, j \in 1..Len(g) : i # j => g[i].id # g[j].id /\ g[i].label # g[j].label}

RecInit ==
    /\ RepIdle /\ SbIdle /\ TplIdle
    /\ Mounted([nodes |-> <<>>, nodesMissing |-> FALSE, edges |-> <<>>, enumTypes |-> <<>>])
    /\ recOld \in Graphs(OldNodeUniverse, MaxOldNodes)
    /\ recNew = <<>>
    /\ recOut = <<>>
    /\ recDone = FALSE

RecMerge ==
    /\ ~recDone
    /\ \E new \in Graphs(NewNodeUniverse, MaxNewNodes) :
          /\ recNew' = new
          /\ recOut' = preservedNodes(recOld, new)
    /\ recDone' = TRUE
    /\ UNCHANGED <<recOld, ctlVars, repVars, sbVars, tplVars>>

SpecReconcile == RecInit /\ [][RecMerge]_vars

-----------------------------------------------------------------------------
(* The repair passes on their own: every short text made of the lines below  *)

\* the number of lines of an input text
MaxLines == 4

\* -- Foreign Key Constraints
LHeader == <<"--", " ">> \o FkHeaderWords

\* --Foreign Key Constraints
LHeaderNoSpace == <<"--">> \o FkHeaderWords

\* ALTER TABLE orders ADD CONSTRAINT fk1 FOREIGN KEY (id) REFERENCES users(id);
LAlter ==
    Spaced(<<"ALTER", "TABLE", "orders", "ADD", "CONSTRAINT", "fk1", "FOREIGN", "KEY", "(">>)
    \o <<"id", ")", " ", "REFERENCES", " ", "users", "(", "id", ")", ";">>

\* the same statement before a comment: ... REFERENCES users(id); -- note
LAlterThenComment == LAlter \o <<" ", "--", " ", "note">>

\* CREATE TABLE IF NOT EXISTS my table (id uuid);
LCreateIfNotExists ==
    Spaced(<<"CREATE", "TABLE", "IF", "NOT", "EXISTS", "my", "table", "(">>)
    \o Spaced(<<"id", "uuid">>) \o <<")", ";">>

\* ALTER TABLE my table ADD CONSTRAINT fk2 FOREIGN KEY (id) REFERENCES my table (id);
LAlterTwoWords ==
    Spaced(<<"ALTER", "TABLE", "my", "table", "ADD", "CONSTRAINT", "fk2", "FOREIGN", "KEY",
             "(">>)
    \o <<"id", ")", " ", "REFERENCES", " ", "my", " ", "table", " ", "(", "id", ")", ";">>

\* a statement broken after the first word of its table name: CREATE TABLE my
LCreateOpen == Spaced(<<"CREATE", "TABLE", "my">>)

\* and its second line: table (id uuid); --Foreign Key Constraints
LCreateRest ==
    Spaced(<<"table", "(">>) \o Spaced(<<"id", "uuid">>) \o <<")", ";", " ">> \o LHeaderNoSpace

LinePool ==
    {LHeader, LHeaderNoSpace, LAlter, LAlterThenComment, LCreateIfNotExists, LAlterTwoWords,
     LCreateOpen, LCreateRest}

\* the text of the lines
RepText == JoinLines(repLines)

RepInit ==
    /\ RecIdle /\ SbIdle /\ TplIdle
    /\ Mounted([nodes |-> <<>>, nodesMissing |-> FALSE, edges |-> <<>>, enumTypes |-> <<>>])
    /\ repLines \in UNION {[1..n -> LinePool] : n \in 1..MaxLines}
    /\ repOp = "none"
    /\ repOut = <<>>

RepRun(op, out) ==
    /\ repOp = "none"
    /\ repOp' = op
    /\ repOut' = out
    /\ UNCHANGED <<repLines, ctlVars, recVars, sbVars, tplVars>>

QuotePass == RepRun("quote", ensureTableNamesAreQuoted(RepText))

FixPass == RepRun("fix", fixCommonSqlIssues(RepText))

DedupPass == RepRun("dedup", removeDuplicateAlterTableStatements(RepText))

RepairPasses == RepRun("repair", Repair(RepText))

RepNext == QuotePass \/ FixPass \/ DedupPass \/ RepairPasses

SpecRepair == RepInit /\ [][RepNext]_vars

-----------------------------------------------------------------------------
(* The sidebar on its own: the column operations on the selected table,      *)
(* whose schema onUpdateNode replaces by the one the operation built         *)

\* the tables the sidebar is opened on: up to MaxColumns columns with
\* pairwise distinct titles
SidebarSchemas ==
    {<<>>}
    \cup UNION {{[k \in 1..n |-> [id |-> "c" \o ToString(k), title |-> titles[k],
                                  type |-> "uuid", constraints |-> <<>>]] :
                   titles \in {t \in [1..n -> SidebarTitles] :
                                 \A a, b \in 1..n : a # b => t[a] # t[b]}} :
                 n \in 1..MaxColumns}

SbInit ==
    /\ RecIdle /\ RepIdle /\ TplIdle
    /\ Mounted([nodes |-> <<>>, nodesMissing |-> FALSE, edges |-> <<>>, enumTypes |-> <<>>])
    /\ sbSchema \in SidebarSchemas
    /\ sbOp = NoSidebarOp
    /\ sbClock = 1

\* one operation of the sidebar: onUpdateNode stores the schema it built
SbDo(op, index, field, value, schema) ==
    /\ sbOp.n < MaxSidebarOps
    /\ sbSchema' = schema
    /\ sbOp' = [op |-> op, index |-> index, field |-> field, value |-> value,
                before |-> sbSchema, n |-> sbOp.n + 1]
    /\ UNCHANGED <<ctlVars, recVars, repVars, tplVars>>

\* a table gets one more column, in the millisecond now of Date.now(): the
\* millisecond of the call before or a later one
SidebarAddColumn ==
    \E now \in sbClock..MaxClock :
        /\ SbDo("addColumn", 0, "", "", addColumnSchema(sbSchema, now))
        /\ sbClock' = now

SidebarUpdateTitle ==
    \E index \in 1..Len(sbSchema), value \in TypedTitles :
        /\ SbDo("updateColumn", index, "title", value,
                updateColumn(sbSchema, index, "title", value))
        /\ UNCHANGED sbClock

SidebarUpdateType ==
    \E index \in 1..Len(sbSchema), value \in SidebarTypes :
        /\ SbDo("updateColumn", index, "type", value,
                updateColumn(sbSchema, index, "type", value))
        /\ UNCHANGED sbClock

SidebarRemoveColumn ==
    \E index \in 1..Len(sbSchema) :
        /\ SbDo("removeColumn", index, "", "", removeColumn(sbSchema, index))
        /\ UNCHANGED sbClock

SidebarToggleConstraint ==
    \E index \in 1..Len(sbSchema), constraint \in SidebarTags :
        /\ SbDo("toggleConstraint", index, "constraints", constraint,
                toggleConstraint(sbSchema, index, constraint))
        /\ UNCHANGED sbClock

SbNext ==
    \/ SidebarAddColumn
    \/ SidebarUpdateTitle
    \/ SidebarUpdateType
    \/ SidebarRemoveColumn
    \/ SidebarToggleConstraint

SpecSidebar == SbInit /\ [][SbNext]_vars

-----------------------------------------------------------------------------
(* The browse page: the template cards                                       *)

\* the ids of the templates of the cards
Templates == {"ecommerce", "blog", "inventory"}

\* the frames of handleCreateFromTemplate the call stack of the engine holds
\* before a further call throws RangeError (maximum call stack size exceeded)
MaxStack == 12

TplInit ==
    /\ RecIdle /\ RepIdle /\ SbIdle /\ TplIdle
    /\ Mounted([nodes |-> <<>>, nodesMissing |-> FALSE, edges |-> <<>>, enumTypes |-> <<>>])

\* the View details / Hide details button of the card of a template
ViewDetails ==
    /\ tplDepth = 0
    /\ \E template \in Templates :
          showTemplateInfo' = IF showTemplateInfo = template THEN Null ELSE template
    /\ UNCHANGED <<tplTemplate, tplDepth, tplOutcome, tplRequested>>
    /\ UNCHANGED <<ctlVars, recVars, repVars, sbVars>>

\* the Use Template button of the card of a template: its onClick calls
\* handleCreateFromTemplate(template), which puts the first frame on the stack
UseTemplate ==
    /\ tplDepth = 0
    /\ \E template \in Templates : tplTemplate' = template
    /\ tplDepth' = 1
    /\ tplOutcome' = "running"
    /\ UNCHANGED <<showTemplateInfo, tplRequested>>
    /\ UNCHANGED <<ctlVars, recVars, repVars, sbVars>>

\* the body of handleCreateFromTemplate, run by the frame on top of the stack:
\* its one statement calls handleCreateFromTemplate(template) again. The call
\* puts a further frame on the stack, or, the stack being full, throws the
\* RangeError that no frame catches and that ends the click. No statement
\* requests a schema and no frame reaches the end of the body.
handleCreateFromTemplate ==
    /\ tplDepth > 0
    /\ \/ /\ tplDepth < MaxStack
          /\ tplDepth' = tplDepth + 1
          /\ tplOutcome' = tplOutcome
       \/ /\ tplDepth = MaxStack
          /\ tplDepth' = 0
          /\ tplOutcome' = "threw"
    /\ UNCHANGED <<showTemplateInfo, tplTemplate, tplRequested>>
    /\ UNCHANGED <<ctlVars, recVars, repVars, sbVars>>

TplNext ==
    \/ ViewDetails
    \/ UseTemplate
    \/ handleCreateFromTemplate

\* the engine runs a click handler to its end before anything else
SpecTemplate == TplInit /\ [][TplNext]_vars /\ WF_vars(handleCreateFromTemplate)

-----------------------------------------------------------------------------
(* Properties of the controller                                              *)

\* C1: an apply, manual or live, whose parse fails leaves the committed graph
\* (tables, edges, enum types), the displayed generated DDL and the rollback
\* text as they were before; of the state of the controller the run changes
\* the error only. (A step in which effects of the render before ran late is
\* left out: a live run of theirs makes changes of its own in the same step.)
C1_ParseFailureLeavesState ==
    [][(last'.runs > 0 /\ last'.outcome = "parse-failed" /\ last'.late = 0)
        => /\ nodes' = nodes /\ nodesMissing' = nodesMissing
           /\ edges' = edges /\ enumTypes' = enumTypes
           /\ sqlContent' = sqlContent /\ appliedSql' = appliedSql
           /\ code' = code /\ settings' = settings /\ dbType' = dbType
           /\ error' # Null
           /\ (last'.op \in {"apply", "applyNow"}
                 => /\ editableSql' = editableSql /\ isEditing' = isEditing
                    /\ liveEditMode' = liveEditMode)]_vars

\* a manual apply on a committed graph failed in the parser
C1_FailedApplyReached ==
    /\ last.op = "apply" /\ last.runs = 1 /\ last.outcome = "parse-failed" /\ last.late = 0
    /\ nodes # <<>> /\ appliedSql # <<>> /\ error # Null

C3_CleanShowsGenerated ==
    (~isEditing /\ Quiescent /\ ~pending.on)
        => sqlContent = generateSql(dbType, nodes, edges, enumTypes, settings)

\* C4: cancel returns the controller to clean with the error cleared and the
\* buffer equal to the rollback text as it was when the edit began, whatever
\* happened in between.
C4_CancelRestoresSnapshot ==
    [][(isEditing /\ last'.op = "cancel")
        => ~isEditing' /\ error' = Null /\ editableSql' = snapshot]_vars

\* C5: after a successful apply the tables, edges and enum types of the
\* committed graph are those of the parsed graph; a text without enum types
\* leaves no enum type behind.
C5_CommitReplacesGraph ==
    [][(last'.runs > 0 /\ last'.outcome = "committed")
        => LET parsed == parseSqlToSchema(last'.parserInput) IN
           /\ [i \in 1..Len(nodes') |-> <<nodes'[i].label, nodes'[i].schema>>]
                = [i \in 1..Len(parsed.tables) |->
                      <<parsed.tables[i].label, parsed.tables[i].schema>>]
           /\ edges' = parsed.edges
           /\ enumTypes' = parsed.enumTypes]_vars

\* C6: a change of the dialect or of a setting made while editing changes none
\* of the buffer, the rollback text, the displayed generated DDL and the
\* stored code.
C6_SettingChangeDeferred ==
    [][(isEditing /\ last'.op \in {"dialect", "caseSensitive", "inlineConstraints"})
        => /\ editableSql' = editableSql /\ appliedSql' = appliedSql
           /\ sqlContent' = sqlContent /\ code' = code]_vars

\* C7: in live editing every change of the text runs the full pipeline: the
\* text a live run hands to the parser is the repaired text (quote pass,
\* fixCommonSqlIssues, foreign-key dedup) of the buffer of its render, the
\* same as for a manual apply of that text.
C7_LiveParsesRepaired ==
    [][(last'.runs > 0 /\ last'.live /\ last'.outcome # "empty")
        => last'.parserInput = Repair(screen'.editableSql)]_vars

\* C8: in live editing, the run that a change of the text triggers never
\* leaves live editing, and a parse failure sets the error and leaves the
\* buffer as typed.
C8_LiveRunStaysLive ==
    [][(isEditing /\ liveEditMode /\ last'.op = "text")
        => /\ isEditing' /\ liveEditMode'
           /\ editableSql' # <<>> => last'.runs = 1 /\ last'.live
           /\ last'.outcome \in {"parse-failed", "empty"}
                 => error' # Null /\ editableSql' # editableSql
           /\ last'.outcome = "parse-failed" => editableSql' = last'.parserInput]_vars

\* in live editing, one change of the text was committed and a later one failed
\* in the parser
C8_LiveFailureReached ==
    /\ isEditing /\ liveEditMode /\ last.op = "text" /\ last.live
    /\ last.outcome = "parse-failed" /\ error # Null
    /\ editableSql = last.parserInput /\ appliedSql \in UserTexts /\ appliedSql # editableSql

-----------------------------------------------------------------------------
(* Properties of the merge                                                   *)

\* C9 as stated: every parsed table that matches a stored table (same id, or
\* labels equal ignoring case) carries the position, style and color of the
\* stored table, also when those are unset.
C9_MatchedCarriesOldLayout ==
    recDone =>
        \A i \in 1..Len(recNew) :
            LET byId == {k \in 1..Len(recOld) : recOld[k].id = recNew[i].id}
                byLabel == {k \in 1..Len(recOld) :
                               ToLowerCase(recOld[k].label) = ToLowerCase(recNew[i].label)}
                k == IF byId # {} THEN First(byId) ELSE First(byLabel)
            IN  k # 0 => /\ recOut[i].position = recOld[k].position
                         /\ recOut[i].style = recOld[k].style
                         /\ recOut[i].color = recOld[k].color

\* C9 amended: a parsed table whose match (same id, else the first with the
\* label equal ignoring case) has a position carries its position and style,
\* and its color when it has one, else the color of the parsed table; when the
\* match has no position, or there is no match, the parsed table is kept as it
\* is.
C9_MatchedWithPositionCarriesLayout ==
    recDone =>
        /\ Len(recOut) = Len(recNew)
        /\ \A i \in 1..Len(recNew) :
            LET byId == {k \in 1..Len(recOld) : recOld[k].id = recNew[i].id}
                byLabel == {k \in 1..Len(recOld) :
                               ToLowerCase(recOld[k].label) = ToLowerCase(recNew[i].label)}
                k == IF byId # {} THEN First(byId) ELSE First(byLabel)
            IN  IF k # 0 /\ recOld[k].position # Undefined
                THEN /\ recOut[i].position = recOld[k].position
                     /\ recOut[i].style = recOld[k].style
                     /\ recOut[i].color = IF recOld[k].color # Undefined THEN recOld[k].color
                                          ELSE recNew[i].color
                ELSE recOut[i] = recNew[i]

\* a parsed table was matched by its label in another case to a stored table
\* without a color, and another to a stored table without a position
C9_LabelMatchReached ==
    /\ recDone
    /\ \E i \in 1..Len(recNew), k \in 1..Len(recOld) :
          /\ \A j \in 1..Len(recOld) : recOld[j].id # recNew[i].id
          /\ recOld[k].label = "Users" /\ recNew[i].label = "users"
          /\ recOld[k].position = "p2" /\ recOld[k].color = Undefined
          /\ recNew[i].color = "blue"
          /\ recOut[i].position = "p2" /\ recOut[i].style = "s1" /\ recOut[i].color = "blue"
    /\ \E i \in 1..Len(recNew), k \in 1..Len(recOld) :
          /\ recOld[k].id = recNew[i].id /\ recOld[k].position = Undefined
          /\ recOut[i] = recNew[i]

\* C10: the id, label, columns and constraints of every merged table are those
\* of the parsed table, never those of the matched stored table.
C10_MergeIsLayoutOnly ==
    recDone =>
        /\ Len(recOut) = Len(recNew)
        /\ \A i \in 1..Len(recNew) :
              /\ recOut[i].id = recNew[i].id
              /\ recOut[i].label = recNew[i].label
              /\ recOut[i].schema = recNew[i].schema

\* a parsed table took the layout of a stored table with another label, other
\* columns and other constraints
C10_LayoutCopiedReached ==
    /\ recDone
    /\ \E i \in 1..Len(recNew), k \in 1..Len(recOld) :
          /\ recOld[k].id = recNew[i].id
          /\ recOld[k].label = "orders" /\ recNew[i].label = "items"
          /\ recOld[k].schema # recNew[i].schema
          /\ recOut[i].position = "p1" /\ recOut[i].style = "s1" /\ recOut[i].color = "red"
          /\ recOut[i].label = "items" /\ recOut[i].schema = NewSchema

\* C18: a run of the apply pipeline whose text the parser turns into a graph
\* ends with the commit and without an error, whatever the stored schema is,
\* one without a node list included.
C18_ParsedGraphIsCommitted ==
    [][(/\ last'.runs > 0
        /\ last'.outcome # "empty"
        /\ parseSqlToSchema(last'.parserInput).ok)
        => (last'.outcome = "committed" /\ error' = Null)]_vars

\* C19: a change of the dialect, of the quoting or of the inline constraints
\* made while the controller is clean regenerates at once: the displayed DDL,
\* the edit buffer, the rollback text and the stored code are all the text
\* generated from the graph for the new dialect and settings.
C19_CleanSettingChangeRegenerates ==
    [][(~isEditing /\ last'.op \in {"dialect", "caseSensitive", "inlineConstraints"})
        => /\ sqlContent' = generateSql(dbType', nodes', edges', enumTypes', settings')
           /\ editableSql' = sqlContent'
           /\ appliedSql' = sqlContent'
           /\ code' = sqlContent'
           /\ ~isEditing']_vars

\* the quoting was switched on while clean and the text of a table changed
C19_RegeneratedWithQuotes ==
    /\ last.op = "caseSensitive" /\ ~isEditing /\ nodes # <<>>
    /\ settings.caseSensitiveIdentifiers
    /\ sqlContent # generateSql(dbType, nodes, edges, enumTypes, defaultSettings)
    /\ code = sqlContent

\* C20: every change of the dialect, of the quoting or of the inline
\* constraints made while the user edits (live or not) shows the user a
\* notification about the pending edits.
C20_EditingSettingChangeNotifies ==
    [][(isEditing /\ last'.op \in {"dialect", "caseSensitive", "inlineConstraints"})
        => notified']_vars

\* C21: the live flag is off in every clean state, and the edit action taken
\* from a clean state enters plain editing: the controller edits, the live
\* flag is off and the apply pipeline has not run.
C21_EditEntersPlainEditing ==
    [][/\ (~isEditing' => ~liveEditMode')
       /\ (last'.op = "edit" => (isEditing' /\ ~liveEditMode' /\ last'.runs = 0))]_vars

\* C22 as stated: a parsed table with the id of one stored table and the
\* label (ignoring case) of another carries the position, style and color of
\* the stored table with its id.
C22_IdMatchCarriesLayout ==
    recDone =>
        \A i \in 1..Len(recNew), k, j \in 1..Len(recOld) :
            (/\ recOld[k].id = recNew[i].id
             /\ j # k
             /\ ToLowerCase(recOld[j].label) = ToLowerCase(recNew[i].label))
            => /\ recOut[i].position = recOld[k].position
               /\ recOut[i].style = recOld[k].style
               /\ recOut[i].color = recOld[k].color

\* C22 amended: for such a parsed table the stored table with its label is
\* never used: when the stored table with its id has a position, the merged
\* table carries that position and style, and that color when it is set, else
\* the parsed color; when it has no position, the merged table is the parsed
\* table as it is.
C22_IdMatchBeforeLabel ==
    recDone =>
        \A i \in 1..Len(recNew), k, j \in 1..Len(recOld) :
            (/\ recOld[k].id = recNew[i].id
             /\ j # k
             /\ ToLowerCase(recOld[j].label) = ToLowerCase(recNew[i].label))
            => IF recOld[k].position # Undefined
               THEN /\ recOut[i].position = recOld[k].position
                    /\ recOut[i].style = recOld[k].style
                    /\ recOut[i].color = IF recOld[k].color # Undefined THEN recOld[k].color
                                         ELSE recNew[i].color
               ELSE recOut[i] = recNew[i]

\* a parsed table took the position of the stored table with its id while a
\* stored table with its label stood at another position
C22_BothMatchesReached ==
    /\ recDone
    /\ \E i \in 1..Len(recNew), k, j \in 1..Len(recOld) :
          /\ recOld[k].id = recNew[i].id
          /\ recOld[k].label = "orders" /\ recOld[j].label = "Users"
          /\ recNew[i].label = "users"
          /\ recOld[k].position = "p1" /\ recOld[j].position = "p2"
          /\ recOut[i].position = "p1" /\ recOut[i].color = "red"

\* C23: a parsed table that has the id of no stored table and the label
\* (ignoring case) of no stored table is merged as the parser made it: it
\* carries the position, style and color of no stored table.
C23_UnmatchedKeepsParsedLayout ==
    recDone =>
        \A i \in 1..Len(recNew) :
            (\A k \in 1..Len(recOld) :
                /\ recOld[k].id # recNew[i].id
                /\ ToLowerCase(recOld[k].label) # ToLowerCase(recNew[i].label))
            => /\ recOut[i] = recNew[i]
               /\ recOut[i].position = ParserPosition
               /\ recOut[i].style = Undefined

\* a parsed table without a match was merged next to stored tables that are
\* laid out
C23_UnmatchedReached ==
    /\ recDone
    /\ Len(recOld) = 2 /\ recOld[1].position = "p1" /\ recOld[2].position = "p2"
    /\ \E i \in 1..Len(recNew) :
          /\ recNew[i].id = "n3" /\ recNew[i].label = "items"
          /\ recOut[i].position = ParserPosition /\ recOut[i].style = Undefined

\* C24: the apply pipeline runs only for an editing controller: no action
\* taken in a clean state, the Apply Now of an earlier notification among
\* them, runs it or changes the graph from text (the edit action, after which
\* the controller edits, apart).
C24_NoApplyWhileClean ==
    [][(~isEditing /\ last'.op # "edit")
        => /\ last'.runs = 0
           /\ (last'.op = "applyNow" => (nodes' = nodes /\ appliedSql' = appliedSql))]_vars

\* C25: in live editing one change of the text to a text that is not empty
\* runs the apply pipeline exactly once before the controller is quiescent
\* (the render that follows the run leaves no effect waiting); a
\* live commit updates the graph, the stored code and the rollback text and
\* leaves the buffer (the text the parser was given), the editing flag and the
\* live flag as they are.
C25_OneRunPerTextChange ==
    [][/\ (isEditing /\ liveEditMode /\ last'.op = "text")
            => /\ last'.runs = IF editableSql' = <<>> THEN 0 ELSE 1
               /\ last'.outcome = "committed"
                     => /\ editableSql' = last'.parserInput
                        /\ appliedSql' = editableSql' /\ code' = editableSql'
                        /\ isEditing' /\ liveEditMode'
       /\ (last.op = "text" /\ last'.op = "render")
            => /\ last'.runs = 0 /\ Quiescent' /\ ~pending'.on
               /\ editableSql' = editableSql /\ appliedSql' = appliedSql
               /\ nodes' = nodes /\ code' = code
               /\ isEditing' = isEditing /\ liveEditMode' = liveEditMode]_vars

\* a change of the text in live editing was committed by its one run
C25_LiveCommitReached ==
    /\ isEditing /\ liveEditMode /\ last.op = "text"
    /\ last.runs = 1 /\ last.live /\ last.outcome = "committed"
    /\ nodes # <<>> /\ appliedSql = editableSql /\ snapshot # appliedSql

\* C26: a manual apply of a text (the buffer on screen) that is empty or only
\* whitespace is rejected
\* before the repair passes and the parser: the error is SQL cannot be empty,
\* the graph, the rollback text, the displayed DDL and the buffer are as they
\* were and the controller still edits. In live editing a change of the text
\* to the empty text runs nothing and leaves the error as it was. (A step in
\* which effects of the render before ran late is left out.)
C26_EmptyTextRejected ==
    [][/\ (last'.op = "apply" /\ Trim(screen.editableSql) = <<>> /\ last'.late = 0)
            => /\ last'.runs = 1 /\ last'.outcome = "empty" /\ last'.parserInput = <<>>
               /\ error' = "SQL cannot be empty"
               /\ nodes' = nodes /\ edges' = edges /\ enumTypes' = enumTypes
               /\ appliedSql' = appliedSql /\ sqlContent' = sqlContent
               /\ editableSql' = editableSql /\ isEditing'
       /\ (isEditing /\ liveEditMode /\ last'.op = "text" /\ editableSql' = <<>>
              /\ last'.late = 0)
            => /\ last'.runs = 0 /\ error' = error
               /\ nodes' = nodes /\ appliedSql' = appliedSql]_vars

\* a manual apply of a blank text was rejected on a committed graph
C26_BlankApplyRejected ==
    /\ last.op = "apply" /\ last.runs = 1 /\ last.outcome = "empty" /\ last.late = 0
    /\ editableSql = <<" ">> /\ error = "SQL cannot be empty"
    /\ isEditing /\ nodes # <<>> /\ appliedSql # <<>> /\ sqlContent = appliedSql

\* C27: the merge gives one table per parsed table, in the order and with the
\* ids and labels of the parsed tables, and the layout of a stored table goes
\* to at most one merged table.
C27_OneMergedTablePerParsedTable ==
    recDone =>
        /\ Len(recOut) = Len(recNew)
        /\ \A i \in 1..Len(recNew) :
              recOut[i].id = recNew[i].id /\ recOut[i].label = recNew[i].label
        /\ \A k \in 1..Len(recOld) :
              recOld[k].position # Undefined
              => Cardinality({i \in 1..Len(recNew) :
                                 /\ NodeToPreserve(recOld, recNew[i]) = k
                                 /\ recOut[i].position = recOld[k].position
                                 /\ recOut[i].style = recOld[k].style}) <= 1

-----------------------------------------------------------------------------
(* Properties of the repair passes                                           *)

\* the lines of the output text
RepOutLines == SplitLines(repOut, 1, <<>>, <<>>)

\* an ALTER TABLE ... ADD CONSTRAINT line, by the test of the dedup pass
AlterLine(line) == ConstraintMatch(line) /\ StartsWithAlterTable(line)

\* a line that holds the words Foreign Key Constraints in a comment
FkHeaderLine(line) ==
    \E c \in 1..Len(line) : line[c] = "--" /\ IncludesFkHeader(Slice(line, c, Len(line)))

\* C11: when the text holds the header -- Foreign Key Constraints and, below
\* it, two identical ALTER TABLE ... ADD CONSTRAINT lines, the output of the
\* dedup pass holds that line once below the header.
C11_DuplicateInSectionDropped ==
    repOp = "dedup" =>
        \A h, i, j \in 1..Len(repLines) :
            (/\ h < i /\ i < j
             /\ repLines[h] = LHeader
             /\ AlterLine(repLines[i])
             /\ repLines[i] = repLines[j])
            => Cardinality({k \in 1..Len(RepOutLines) :
                               k > h /\ RepOutLines[k] = repLines[i]}) = 1

\* C12: the lines of the output of the dedup pass are the lines of the input
\* without some ALTER TABLE ... ADD CONSTRAINT lines, each of which has the
\* trimmed text of an earlier such line; every other line keeps its place.
C12_OnlyExactDuplicatesRemoved ==
    repOp = "dedup" =>
        \E keep \in SUBSET (1..Len(repLines)) :
            /\ Len(RepOutLines) = Cardinality(keep)
            /\ \A k \in keep :
                  RepOutLines[Cardinality({m \in keep : m <= k})] = repLines[k]
            /\ \A j \in (1..Len(repLines)) \ keep :
                  /\ AlterLine(repLines[j])
                  /\ \E i \in 1..(j - 1) :
                        AlterLine(repLines[i]) /\ Trim(repLines[i]) = Trim(repLines[j])

\* C13: the dedup pass gives back a text without a Foreign Key Constraints
\* header as it is, and leaves every line before the first such header as it
\* is.
C13_TextOutsideSectionUntouched ==
    repOp = "dedup" =>
        LET heads == {h \in 1..Len(repLines) : FkHeaderLine(repLines[h])} IN
        IF heads = {} THEN repOut = RepText
        ELSE /\ Len(RepOutLines) >= First(heads) - 1
             /\ SubSeq(RepOutLines, 1, First(heads) - 1)
                   = SubSeq(repLines, 1, First(heads) - 1)

\* C14: the quote pass wraps the two bare words of the identifier of a CREATE
\* TABLE [IF NOT EXISTS], ALTER TABLE or REFERENCES clause in double quotes and
\* keeps every other token of the statement (blanks apart).
C14_TwoWordIdentifiersQuoted ==
    repOp = "quote" =>
        LET name == <<"\"", "my", " ", "table", "\"">>
            want == [l \in {LCreateIfNotExists, LAlterTwoWords} |->
                        IF l = LCreateIfNotExists
                        THEN <<"CREATE", "TABLE", "IF", "NOT", "EXISTS">> \o name
                             \o <<"(", "id", "uuid", ")", ";">>
                        ELSE <<"ALTER", "TABLE">> \o name
                             \o <<"ADD", "CONSTRAINT", "fk2", "FOREIGN", "KEY", "(", "id", ")",
                                  "REFERENCES">> \o name \o <<"(", "id", ")", ";">>]
        IN  /\ Len(RepOutLines) = Len(repLines)
            /\ \A i \in 1..Len(repLines) :
                  repLines[i] \in DOMAIN want =>
                      SelectSeq(RepOutLines[i], LAMBDA t : t # " ")
                          = SelectSeq(want[repLines[i]], LAMBDA t : t # " ")

\* C15: the quote pass leaves every statement as it is whose table names are
\* one bare word or quoted, the ALTER TABLE orders ADD CONSTRAINT statement
\* among them.
C15_SingleWordStatementsUnchanged ==
    repOp = "quote" =>
        /\ Len(RepOutLines) = Len(repLines)
        /\ \A i \in 1..Len(repLines) :
              repLines[i] \in {LAlter, LAlterThenComment, LHeader, LHeaderNoSpace}
                  => RepOutLines[i] = repLines[i]

\* C16: the repair passes applied to their own output give that output again.
C16_RepairIdempotent ==
    repOp = "repair" => Repair(repOut) = repOut

-----------------------------------------------------------------------------
(* Properties of the sidebar                                                 *)

\* C17: the column titles of the selected table are pairwise distinct after
\* every sequence of addColumn, updateColumn, removeColumn and
\* toggleConstraint on a table whose titles were pairwise distinct.
C17_TitlesStayDistinct ==
    \A a, b \in 1..Len(sbSchema) : a # b => sbSchema[a].title # sbSchema[b].title

\* the set of the tags of a column
TagSet(column) == {column.constraints[k] : k \in 1..Len(column.constraints)}

\* C28: toggleConstraint(i, c) leaves every other column as it was, leaves the
\* id, title and type of column i as they were, changes the tags of column i
\* by the membership of c alone, leaves no tag twice in the list, and applied
\* once more gives the tags that column i had before.
C28_ToggleFlipsOneTag ==
    sbOp.op = "toggleConstraint" =>
        /\ Len(sbSchema) = Len(sbOp.before)
        /\ \A k \in 1..Len(sbSchema) : k # sbOp.index => sbSchema[k] = sbOp.before[k]
        /\ sbSchema[sbOp.index].id = sbOp.before[sbOp.index].id
        /\ sbSchema[sbOp.index].title = sbOp.before[sbOp.index].title
        /\ sbSchema[sbOp.index].type = sbOp.before[sbOp.index].type
        /\ TagSet(sbSchema[sbOp.index]) \ {sbOp.value}
              = TagSet(sbOp.before[sbOp.index]) \ {sbOp.value}
        /\ (sbOp.value \in TagSet(sbSchema[sbOp.index]))
              # (sbOp.value \in TagSet(sbOp.before[sbOp.index]))
        /\ Cardinality(TagSet(sbSchema[sbOp.index])) = Len(sbSchema[sbOp.index].constraints)
        /\ TagSet(toggleConstraint(sbSchema, sbOp.index, sbOp.value)[sbOp.index])
              = TagSet(sbOp.before[sbOp.index])

\* a tag was taken off a column that had two tags, next to another column
C28_TagRemovedReached ==
    /\ sbOp.op = "toggleConstraint" /\ sbOp.value = "primary"
    /\ Len(sbSchema) = 2
    /\ sbOp.before[sbOp.index].constraints = <<"primary", "notnull">>
    /\ sbSchema[sbOp.index].constraints = <<"notnull">>

-----------------------------------------------------------------------------
(* Properties of the browse page                                             *)

\* C29: a call of handleCreateFromTemplate(template) started by Use Template
\* ends by returning, with the creation of a schema from that template
\* requested; it does not end in any other way.
C29_UseTemplateReturns ==
    [][(tplDepth > 0 /\ tplDepth' = 0) =>
          (tplOutcome' = "returned" /\ tplTemplate \in tplRequested')]_vars

=============================================================================
